---------------------------- MODULE Spec2Model ----------------------------
(***************************************************************************)
(* Paper-execution engine of onchain-trader-intelligence                   *)
(* (src/realtime/execute_signals.py) with the price client it calls        *)
(* (src/pricing/jupiter_prices.py).                                        *)
(*                                                                         *)
(* Numbers.  Python floats are modelled as exact rationals [n, d] in       *)
(* lowest terms (d > 0); float rounding is not modelled.  Timestamps and   *)
(* hold_seconds are whole seconds.                                         *)
(*                                                                         *)
(* Unit of account.  The engine's arithmetic is linear in the pair         *)
(* (position units, dollars): the only absolute quantity it compares units *)
(* with is the 1e-12 epsilon of maybe_exit.  A run therefore measures      *)
(* position units and dollars in one unit U, fixed by its environment:     *)
(* U = 1 (whole tokens and dollars) or U = 1e-12 (a "dust" run, whose      *)
(* PAPER_COPY_FRACTION and PAPER_STARTING_CASH are of the order 1e-12).    *)
(* AtMostEpsilon(U, x) is x <= 1e-12 for x measured in U.  Observed       *)
(* amounts (top_amount), prices, fractions, bps and percentages are never  *)
(* scaled.                                                                 *)
(***************************************************************************)
EXTENDS Integers, Sequences, FiniteSets, TLC

\* ------------------------------------------------------------------ bounds
MaxEvents == 2
MaxTs == 2
MaxFilterEvents == 1
MaxTransfers == 2
MaxNotes == 2
MaxFaults == 1
MaxLadderFaults == 9
MaxPricedEvents == 1
MaxDustEvents == 3

\* --------------------------------------------------------------- rationals
RECURSIVE GCD(_, _)
GCD(a, b) ==
    IF b = 0 THEN a ELSE GCD(b, a % b)

AbsInt(i) ==
    IF i < 0 THEN -i ELSE i

Rat(num, den) ==
    LET g == GCD(AbsInt(num), AbsInt(den))
        s == IF den < 0 THEN -1 ELSE 1
    IN  [n |-> (s * num) \div g, d |-> (s * den) \div g]

Z(i) ==
    [n |-> i, d |-> 1]

RAdd(a, b) ==
    LET g == GCD(a.d, b.d)
    IN  Rat(a.n * (b.d \div g) + b.n * (a.d \div g), (a.d \div g) * b.d)

RNeg(a) ==
    [n |-> -a.n, d |-> a.d]

RSub(a, b) ==
    RAdd(a, RNeg(b))

RMul(a, b) ==
    LET g1 == GCD(AbsInt(a.n), b.d)
        g2 == GCD(AbsInt(b.n), a.d)
    IN  IF a.n = 0 \/ b.n = 0 THEN Z(0)
        ELSE Rat((a.n \div g1) * (b.n \div g2), (a.d \div g2) * (b.d \div g1))

RDiv(a, b) ==
    RMul(a, Rat(b.d, b.n))

RLe(a, b) ==
    LET g == GCD(a.d, b.d)
    IN  a.n * (b.d \div g) <= b.n * (a.d \div g)

RLt(a, b) ==
    ~RLe(b, a)

RAbs(a) ==
    [n |-> AbsInt(a.n), d |-> a.d]

RMin(a, b) ==
    IF RLe(a, b) THEN a ELSE b

\* ------------------------------------------------------- optional values
\* Python's None.  A string-valued field that is absent holds None; an
\* optional number or set is <<>> (None) or <<v>>.
None == "None"

Some(v) == <<v>>

Nothing == <<>>

\* A text where a number is expected: float() raises ValueError on it.
NotANumber ==
    [text |-> "abc"]

\* ---------------------------------------------------------- price client
USDC_MINT == "EPjFWdd5AufqSSqeM2qN1xzybapC8G4wEGGkZwyTDt1v"

USDT_MINT == "Es9vMFrzaCERmJfrF4H2FYD4KCoNkY11McCe8BenwNYB"

\* A mint priced over the network.
OTHER_MINT == "So11111111111111111111111111111111111111112"

\* What the Jupiter lookup of a non-stable mint can come to: nothing (no
\* data, no price, or every retry failed) or a positive spot price.
JupiterAnswers ==
    {Nothing, Some(Z(2)), Some(Rat(41, 20))}

\* str.strip() on the mints used here: a blank string comes out empty.
strip(s) ==
    IF s = " " THEN "" ELSE s

\* Line 28, `mint = (mint or "").strip()`.
CleanMint(mint) ==
    strip(IF mint = None THEN "" ELSE mint)

\* get_price(mint) given the answer `net` the network would produce.
get_price(mint, net) ==
    IF CleanMint(mint) = "" THEN Nothing
    ELSE IF CleanMint(mint) = USDC_MINT THEN Some(Z(1))
    ELSE IF CleanMint(mint) = USDT_MINT THEN Some(Z(1))
    ELSE net

\* Whether get_price(mint) goes to the network at all.
NetworkLookup(mint) ==
    ~(CleanMint(mint) = "" \/ CleanMint(mint) = USDC_MINT
                          \/ CleanMint(mint) = USDT_MINT)

\* JupiterPriceClient(max_retries=3).
price_max_retries == 3

\* What one attempt (the body of the try, lines 41-56) can meet:
\*   "http_error"  the request times out or the status is an error;
\*   "bad_shape"   the body is not the expected JSON object;
\*   "bad_price"   float(price) fails on the price field;
\*   "no_price"    the answer has no entry, or no price, for the mint;
\*   "price"       a price is read.
AttemptOutcomes ==
    [kind : {"http_error", "bad_shape", "bad_price", "no_price"},
     price : {Z(0)}]
    \cup [kind : {"price"}, price : {Z(2), Rat(41, 20)}]

\* Mutant of Caught: the handler catches the HTTP errors only.
Caught_HttpOnly(kind) ==
    kind = "http_error"

\* Line 58, `except Exception`: whatever the try body raises is caught.
Caught(kind) ==
    kind \in {"http_error", "bad_shape", "bad_price"}

\* Line 60, time.sleep(0.5 * attempt).
backoff_wait(k) ==
    RMul(Rat(1, 2), Z(k))

\* The loop of lines 39-62 from attempt k on; answers[k] is what attempt k
\* meets. The result carries the returned value, the attempts made, the
\* waits slept and whether an exception left the call.
RECURSIVE retry_loop(_, _, _)
retry_loop(answers, k, waits) ==
    IF k > price_max_retries
    THEN [result |-> Nothing, attempts |-> k - 1, waits |-> waits,
          raised |-> FALSE]
    ELSE LET a == answers[k]
         IN  IF a.kind = "price"
             THEN [result |-> Some(a.price), attempts |-> k, waits |-> waits,
                   raised |-> FALSE]
             ELSE IF a.kind = "no_price"
             THEN [result |-> Nothing, attempts |-> k, waits |-> waits,
                   raised |-> FALSE]
             ELSE IF Caught(a.kind)
             THEN retry_loop(answers, k + 1, Append(waits, backoff_wait(k)))
             ELSE [result |-> Nothing, attempts |-> k, waits |-> waits,
                   raised |-> TRUE]

\* get_price(mint), lines 21-64, attempt by attempt.
get_price_call(mint, answers) ==
    IF NetworkLookup(mint)
    THEN retry_loop(answers, 1, <<>>)
    ELSE [result |-> get_price(mint, Nothing), attempts |-> 0,
          waits |-> <<>>, raised |-> FALSE]

\* What the attempts of one call can meet, one entry per possible attempt.
AttemptLists ==
    [1..price_max_retries -> AttemptOutcomes]

\* The mints get_price is called with.
PriceMints ==
    {None, "", " ", USDC_MINT, USDT_MINT, OTHER_MINT}


\* ------------------------------------------------------------ configuration
BPS_DENOM == 10000

PCT == 100

\* Mutant of bps_to_mult: basis points taken for tenths of a percent.
bps_to_mult_Thousand(bps) ==
    RDiv(bps, Z(1000))

bps_to_mult(bps) ==
    RDiv(bps, Z(BPS_DENOM))

\* The option names read from the environment.
FloatOptions ==
    {"PAPER_STARTING_CASH", "PAPER_COPY_FRACTION", "PAPER_FEE_BPS",
     "PAPER_SLIPPAGE_BPS", "PAPER_MIN_SIGNAL_AMOUNT", "PAPER_MIN_DOMINANCE",
     "PAPER_TAKE_PROFIT_PCT", "PAPER_STOP_LOSS_PCT", "PAPER_SELL_FRACTION"}

\* ExecConfig's field defaults.
ExecConfig ==
    [starting_cash     |-> Z(1000),
     copy_fraction     |-> Rat(10, 100),
     fee_bps           |-> Z(20),
     slippage_bps      |-> Z(30),
     min_signal_amount |-> Z(1),
     min_dominance     |-> Rat(7, 10),
     hold_seconds      |-> 900,
     take_profit_pct   |-> Z(2),
     stop_loss_pct     |-> Z(1),
     sell_fraction     |-> Z(1),
     allow_mints_csv   |-> <<>>]

\* An environment: PAPER_TIER and PAPER_TEMP_LOWER_THRESHOLDS as their
\* text ("" when unset), each numeric option unset or blank (Nothing), set
\* to the text of a number (Some of that number) or set to a text that is
\* no number (Some(NotANumber)), PAPER_ALLOW_MINTS as the list of its
\* comma-separated items (<<>> for an unset or empty variable), and the unit
\* of account of the run.
\* Mutant of _env_is_set: a variable counts as set only if it parses.
_env_is_set_Parsable(env, name) ==
    env[name] # Nothing /\ env[name][1] # NotANumber

_env_is_set(env, name) ==
    env[name] # Nothing

_env_float(env, name, default) ==
    IF env[name] = Nothing THEN default
    ELSE IF env[name][1] = NotANumber THEN default
    ELSE env[name][1]

\* int(x) of a float: the fraction is dropped, towards zero.
Trunc(r) ==
    IF r.n >= 0 THEN r.n \div r.d ELSE -((-r.n) \div r.d)

_env_int(env, name, default) ==
    IF env[name] = Nothing THEN default
    ELSE IF env[name][1] = NotANumber THEN default
    ELSE Trunc(env[name][1])

\* str.strip().lower() on the flag texts used here.
strip_lower(v) ==
    IF v = " TRUE " THEN "true" ELSE v

\* Mutant of _env_bool: only the text "1" counts as true.
_env_bool_OnlyOne(env, name, default) ==
    IF env[name] = "" THEN default
    ELSE env[name] = "1"

_env_bool(env, name, default) ==
    IF env[name] = "" THEN default
    ELSE strip_lower(env[name]) \in {"1", "true", "yes", "y", "on"}

\* str.strip().upper() on the tier texts used here.
strip_upper(v) ==
    IF v = " low_risk " THEN "LOW_RISK" ELSE v

\* Line 137, min(cfg.hold_seconds, 180).
relaxed_hold(h) ==
    IF h <= 180 THEN h ELSE 180

\* cfg and allowed_signals as main() resolves them (lines 103-152).
ResolveConfig(env) ==
    LET base ==
            [starting_cash     |-> _env_float(env, "PAPER_STARTING_CASH", ExecConfig.starting_cash),
             copy_fraction     |-> _env_float(env, "PAPER_COPY_FRACTION", ExecConfig.copy_fraction),
             fee_bps           |-> _env_float(env, "PAPER_FEE_BPS", ExecConfig.fee_bps),
             slippage_bps      |-> _env_float(env, "PAPER_SLIPPAGE_BPS", ExecConfig.slippage_bps),
             min_signal_amount |-> _env_float(env, "PAPER_MIN_SIGNAL_AMOUNT", ExecConfig.min_signal_amount),
             min_dominance     |-> _env_float(env, "PAPER_MIN_DOMINANCE", ExecConfig.min_dominance),
             hold_seconds      |-> _env_int(env, "PAPER_HOLD_SECONDS", ExecConfig.hold_seconds),
             take_profit_pct   |-> _env_float(env, "PAPER_TAKE_PROFIT_PCT", ExecConfig.take_profit_pct),
             stop_loss_pct     |-> _env_float(env, "PAPER_STOP_LOSS_PCT", ExecConfig.stop_loss_pct),
             sell_fraction     |-> _env_float(env, "PAPER_SELL_FRACTION", ExecConfig.sell_fraction),
             allow_mints_csv   |-> env["PAPER_ALLOW_MINTS"]]
        low == strip_upper(env["PAPER_TIER"]) = "LOW_RISK"
        tiered ==
            [base EXCEPT
               !.copy_fraction =
                   IF low /\ ~_env_is_set(env, "PAPER_COPY_FRACTION")
                   THEN Rat(5, 100) ELSE @,
               !.min_dominance =
                   IF low /\ ~_env_is_set(env, "PAPER_MIN_DOMINANCE")
                   THEN Rat(85, 100) ELSE @,
               !.min_signal_amount =
                   IF low /\ ~_env_is_set(env, "PAPER_MIN_SIGNAL_AMOUNT")
                   THEN Z(1) ELSE @,
               !.take_profit_pct =
                   IF low /\ ~_env_is_set(env, "PAPER_TAKE_PROFIT_PCT")
                   THEN Z(1) ELSE @,
               !.stop_loss_pct =
                   IF low /\ ~_env_is_set(env, "PAPER_STOP_LOSS_PCT")
                   THEN Rat(5, 10) ELSE @,
               !.hold_seconds =
                   IF low /\ ~_env_is_set(env, "PAPER_HOLD_SECONDS")
                   THEN 600 ELSE @]
        relaxed ==
            [tiered EXCEPT
               !.min_signal_amount = Rat(1, 100),
               !.min_dominance = Rat(30, 100),
               !.hold_seconds =
                   IF ~_env_is_set(env, "PAPER_HOLD_SECONDS")
                   THEN relaxed_hold(@) ELSE @]
    IN  IF _env_bool(env, "PAPER_TEMP_LOWER_THRESHOLDS", FALSE)
        THEN [cfg |-> relaxed,
              allowed_signals |->
                  {"normal_transfer", "large_transfer", "whale_activity"}]
        ELSE [cfg |-> tiered,
              allowed_signals |-> {"large_transfer", "whale_activity"}]

\* parse_allowlist: None for an empty variable, else the non-blank items.
parse_allowlist(c) ==
    IF c.allow_mints_csv = <<>> THEN Nothing
    ELSE Some({c.allow_mints_csv[i] : i \in DOMAIN c.allow_mints_csv} \ {""})

\* The environment with nothing set.
EnvUnset ==
    [x \in FloatOptions \cup {"PAPER_HOLD_SECONDS"} |-> Nothing]
    @@ [x \in {"PAPER_ALLOW_MINTS"} |-> <<>>]
    @@ [x \in {"PAPER_TIER"} |-> ""]
    @@ [x \in {"PAPER_TEMP_LOWER_THRESHOLDS"} |-> ""]
    @@ [x \in {"unit"} |-> "one"]

\* The environments of the runs explored.  EnvDollar is the default
\* configuration with a one-second hold; EnvDust trades dust: quantities of
\* the order of the 1e-12 epsilon, half of a position sold per exit, twelve
\* units of cash, and an allowlist of one mint.
EnvDollar ==
    [EnvUnset EXCEPT !["PAPER_HOLD_SECONDS"] = Some(Z(1))]

EnvDust ==
    [EnvUnset EXCEPT !["unit"] = "pico",
                     !["PAPER_STARTING_CASH"] = Some(Z(12)),
                     !["PAPER_COPY_FRACTION"] = Some(Z(1)),
                     !["PAPER_SELL_FRACTION"] = Some(Rat(1, 2)),
                     !["PAPER_HOLD_SECONDS"] = Some(Z(1)),
                     !["PAPER_ALLOW_MINTS"] = <<OTHER_MINT>>]

Envs ==
    {EnvDollar, EnvDust}

\* The 1e-12 of maybe_exit, in units of 1e-12.
EPSILON == 1

\* x <= 1e-12 (line 265) for x in the run's unit of account.  In whole units
\* no positive rational this model can hold (denominator below 2^31) is as
\* small as 1e-12, so the comparison is x <= 0 there.
AtMostEpsilon(u, x) ==
    IF u = "pico" THEN RLe(x, Z(EPSILON)) ELSE RLe(x, Z(0))


\* ------------------------------------------------------------------ state
VARIABLES
    environ,          \* os.environ as main() reads it
    unit,             \* the run's unit of account: "one" or "pico"
    cfg,              \* the resolved ExecConfig
    allowed_signals,  \* main()'s allowed_signals
    cash,             \* main()'s cash
    positions,        \* positions[mint] = [units, avg_entry, entry_ts]
    trades,           \* the trade ledger, a sequence of rows
    equity,           \* the equity curve, a sequence of snapshots
    skipped,          \* the skip counters
    n,                \* number of events of the log consumed so far
    last,             \* the loop body's locals for the event just processed
    watch,            \* watch_wallet.main()'s wallets: label -> address
    pc,               \* pc[w]: the statement listener w stands at
    backoff_s,        \* backoff_s[w] of watch_one_wallet
    ws,               \* ws[w]: the listener's connection, "open" or "closed"
    event,            \* event[w]: the event dict being built, <<>> if none
    attempt,          \* attempt[w] of RpcClient._post, 0 outside a fetch
    running,          \* the task holding the event loop, None between tasks
    WRITE_LOCK,       \* the holder of WRITE_LOCK, None when unlocked
    log,              \* the lines of artifacts/realtime_signals.jsonl
    clock,            \* the last reading of time.time()
    cancelling,       \* the main task has been cancelled
    faults,           \* connection failures the network may still cause
    hist,             \* hist[w]: what listener w has done (see HistInit)
    transfers,        \* the argument of a call of infer_from_transfers
    inferred,         \* its result, <<>> before the call
    price_call,       \* the last call of get_price: its mint and what each
                      \* attempt it made met, <<>> before any call
    price_ret         \* what that call did: result, attempts, waits

\* The engine's state.
evars ==
    <<environ, unit, cfg, allowed_signals, cash, positions, trades, equity,
      skipped, n, last>>

\* The listener process's state.
lvars ==
    <<watch, pc, backoff_s, ws, event, attempt, running, WRITE_LOCK, log,
      clock, cancelling, faults, hist>>

\* The classifier call.
ivars ==
    <<transfers, inferred>>

\* The price client's last call.
pvars ==
    <<price_call, price_ret>>

vars ==
    <<evars, lvars, ivars, pvars>>

SkipNames ==
    {"skip_missing_fields", "skip_err", "skip_allowlist", "skip_signal_type",
     "skip_min_amount", "skip_min_dominance", "skip_no_price",
     "skip_insufficient_cash", "skip_no_position"}

\* Mutant of Bump: the increment lands on a fixed counter (a pasted line).
Bump_WrongCounter(sk, name) ==
    [sk EXCEPT !["skip_missing_fields"] = @ + 1]

Bump(sk, name) ==
    [sk EXCEPT ![name] = @ + 1]

\* Sum of f[x] over the finite set S, f rational-valued.
RECURSIVE RSum(_, _)
RSum(f, S) ==
    IF S = {} THEN Z(0)
    ELSE LET x == CHOOSE y \in S : TRUE
         IN  RAdd(f[x], RSum(f, S \ {x}))

\* ------------------------------------------------------------ mark_equity
\* mk[m] is what the network answers for mint m at marking time.  The
\* result is the snapshot appended and the number of get_price calls made.
OpenMints(pos) ==
    {m \in DOMAIN pos : RLt(Z(0), pos[m].units)}

\* The network's answer for mint m among the answers mk.
NetAnswer(mk, m) ==
    IF m \in DOMAIN mk THEN mk[m] ELSE Nothing

PricedMints(pos, mk) ==
    {m \in OpenMints(pos) : get_price(m, NetAnswer(mk, m)) # Nothing}

\* Mutant of mark_equity: open_positions counts only the priced positions.
mark_equity_CountPriced(ts, csh, pos, mk) ==
    LET priced == PricedMints(pos, mk)
        value == [m \in priced |->
                    RMul(pos[m].units, get_price(m, NetAnswer(mk, m))[1])]
        total_pos_value == RSum(value, priced)
    IN  [ts |-> ts,
         cash_usd |-> csh,
         position_value_usd |-> total_pos_value,
         equity_usd |-> RAdd(csh, total_pos_value),
         open_positions |-> Cardinality(priced)]

mark_equity(ts, csh, pos, mk) ==
    LET priced == PricedMints(pos, mk)
        value == [m \in priced |->
                    RMul(pos[m].units, get_price(m, NetAnswer(mk, m))[1])]
        any_price == priced # {}
        total_pos_value == IF any_price THEN RSum(value, priced) ELSE Z(0)
    IN  [ts |-> ts,
         cash_usd |-> csh,
         position_value_usd |-> total_pos_value,
         equity_usd |-> RAdd(csh, total_pos_value),
         open_positions |-> Cardinality(OpenMints(pos))]

\* -------------------------------------------------------------- maybe_exit
\* Mutant of ExitReason: the time rule is tested first.
ExitReason_TimeFirst(c, pnl_pct, held_s) ==
    IF held_s >= c.hold_seconds THEN "time_exit"
    ELSE IF RLe(c.take_profit_pct, pnl_pct) THEN "take_profit"
    ELSE IF RLe(pnl_pct, RNeg(RAbs(c.stop_loss_pct))) THEN "stop_loss"
    ELSE None

\* The exit reason of lines 242-248, None when no rule fires.
ExitReason(c, pnl_pct, held_s) ==
    IF RLe(c.take_profit_pct, pnl_pct) THEN "take_profit"
    ELSE IF RLe(pnl_pct, RNeg(RAbs(c.stop_loss_pct))) THEN "stop_loss"
    ELSE IF held_s >= c.hold_seconds THEN "time_exit"
    ELSE None

\* Mutant of AfterSell: a sold-out position keeps its entry price and time.
AfterSell_NoReset(u, pos, units, sell_units) ==
    LET left == RSub(units, sell_units)
    IN  IF AtMostEpsilon(u, left)
        THEN [pos EXCEPT !.units = Z(0)]
        ELSE [pos EXCEPT !.units = left]

\* Mutant of AfterSell: every sale closes the position, whatever it leaves.
AfterSell_SoldOut(u, pos, units, sell_units) ==
    [units |-> Z(0), avg_entry |-> Z(0), entry_ts |-> 0]

\* The position after selling sell_units of it (lines 263-268).
AfterSell(u, pos, units, sell_units) ==
    LET left == RSub(units, sell_units)
    IN  IF AtMostEpsilon(u, left)
        THEN [units |-> Z(0), avg_entry |-> Z(0), entry_ts |-> 0]
        ELSE [pos EXCEPT !.units = left]

\* Mutant of maybe_exit: the gross proceeds of a sale are added to cash, the
\* costs are not deducted.
maybe_exit_GrossToCash(u, c, s, ts, mint, price, trigger_sig) ==
    LET held == mint \in DOMAIN s.positions
        pos == s.positions[mint]
        units == pos.units
        avg_entry == pos.avg_entry
        entry_ts == pos.entry_ts
        pnl_pct == RMul(RSub(RDiv(price, avg_entry), Z(1)), Z(PCT))
        held_s == ts - entry_ts
        exit_reason == ExitReason(c, pnl_pct, held_s)
        sell_units == RMul(units, c.sell_fraction)
        gross_usd == RMul(sell_units, price)
        fees_usd == RMul(gross_usd, bps_to_mult(c.fee_bps))
        slip_usd == RMul(gross_usd, bps_to_mult(c.slippage_bps))
        net_proceeds == RSub(RSub(gross_usd, fees_usd), slip_usd)
        cash1 == RAdd(s.cash, gross_usd)
        row == [ts |-> ts, signature |-> trigger_sig, side |-> "SELL",
                mint |-> mint, reason |-> exit_reason, price_usd |-> price,
                units |-> sell_units, gross_usd |-> gross_usd,
                fees_usd |-> fees_usd, slippage_usd |-> slip_usd,
                net_usd |-> net_proceeds, cash_usd |-> cash1,
                pnl_pct_vs_entry |-> pnl_pct]
    IN  IF ~held \/ RLe(units, Z(0))
        THEN [s EXCEPT !.skipped = Bump(@, "skip_no_position")]
             @@ [exit |-> "skip_no_position"]
        ELSE IF RLe(avg_entry, Z(0)) THEN s @@ [exit |-> "bad_entry"]
        ELSE IF exit_reason = None THEN s @@ [exit |-> "no_exit"]
        ELSE IF RLe(sell_units, Z(0)) THEN s @@ [exit |-> "no_units"]
        ELSE [cash |-> cash1,
              positions |-> [s.positions EXCEPT
                               ![mint] = AfterSell(u, pos, units, sell_units)],
              trades |-> Append(s.trades, row),
              skipped |-> s.skipped,
              exit |-> exit_reason]

\* s = [cash, positions, trades, skipped]; the result adds `exit`, the path
\* maybe_exit took: "skip_no_position", "bad_entry" (avg_entry <= 0),
\* "no_exit", "no_units" (sell_units <= 0) or the exit reason of the sale.
maybe_exit(u, c, s, ts, mint, price, trigger_sig) ==
    LET held == mint \in DOMAIN s.positions
        pos == s.positions[mint]
        units == pos.units
        avg_entry == pos.avg_entry
        entry_ts == pos.entry_ts
        pnl_pct == RMul(RSub(RDiv(price, avg_entry), Z(1)), Z(PCT))
        held_s == ts - entry_ts
        exit_reason == ExitReason(c, pnl_pct, held_s)
        sell_units == RMul(units, c.sell_fraction)
        gross_usd == RMul(sell_units, price)
        fees_usd == RMul(gross_usd, bps_to_mult(c.fee_bps))
        slip_usd == RMul(gross_usd, bps_to_mult(c.slippage_bps))
        net_proceeds == RSub(RSub(gross_usd, fees_usd), slip_usd)
        cash1 == RAdd(s.cash, net_proceeds)
        row == [ts |-> ts, signature |-> trigger_sig, side |-> "SELL",
                mint |-> mint, reason |-> exit_reason, price_usd |-> price,
                units |-> sell_units, gross_usd |-> gross_usd,
                fees_usd |-> fees_usd, slippage_usd |-> slip_usd,
                net_usd |-> net_proceeds, cash_usd |-> cash1,
                pnl_pct_vs_entry |-> pnl_pct]
    IN  IF ~held \/ RLe(units, Z(0))
        THEN [s EXCEPT !.skipped = Bump(@, "skip_no_position")]
             @@ [exit |-> "skip_no_position"]
        ELSE IF RLe(avg_entry, Z(0)) THEN s @@ [exit |-> "bad_entry"]
        ELSE IF exit_reason = None THEN s @@ [exit |-> "no_exit"]
        ELSE IF RLe(sell_units, Z(0)) THEN s @@ [exit |-> "no_units"]
        ELSE [cash |-> cash1,
              positions |-> [s.positions EXCEPT
                               ![mint] = AfterSell(u, pos, units, sell_units)],
              trades |-> Append(s.trades, row),
              skipped |-> s.skipped,
              exit |-> exit_reason]


\* ------------------------------------------------------------------ events
\* One line of the event log as load_events returns it.  signature, err,
\* signal and top_mint are strings or None; top_amount and dominance are
\* absent (Nothing) or a number; _ts is the write time in seconds.
top_amount_of(e) ==
    IF e.top_amount = Nothing THEN Z(0) ELSE e.top_amount[1]

dominance_of(e) ==
    IF e.dominance = Nothing THEN Z(0) ELSE e.dominance[1]

Falsy(s) ==
    s = None \/ s = ""

\* Mutant of FilterChain: the dominance check comes before the amount check.
FilterChain_Swapped(c, allowed, e, px) ==
    LET allow == parse_allowlist(c)
    IN  IF e.err # None THEN "skip_err"
        ELSE IF Falsy(e.signature) \/ Falsy(e.top_mint) THEN "skip_missing_fields"
        ELSE IF allow # Nothing /\ e.top_mint \notin allow[1] THEN "skip_allowlist"
        ELSE IF e.signal \notin allowed THEN "skip_signal_type"
        ELSE IF RLt(dominance_of(e), c.min_dominance) THEN "skip_min_dominance"
        ELSE IF RLt(top_amount_of(e), c.min_signal_amount) THEN "skip_min_amount"
        ELSE IF px = Nothing THEN "skip_no_price"
        ELSE "pass"

\* Mutant of FilterChain: the signal is not checked.
FilterChain_AnySignal(c, allowed, e, px) ==
    LET allow == parse_allowlist(c)
    IN  IF e.err # None THEN "skip_err"
        ELSE IF Falsy(e.signature) \/ Falsy(e.top_mint) THEN "skip_missing_fields"
        ELSE IF allow # Nothing /\ e.top_mint \notin allow[1] THEN "skip_allowlist"
        ELSE IF RLt(top_amount_of(e), c.min_signal_amount) THEN "skip_min_amount"
        ELSE IF RLt(dominance_of(e), c.min_dominance) THEN "skip_min_dominance"
        ELSE IF px = Nothing THEN "skip_no_price"
        ELSE "pass"

\* The first failing check of the filter chain (lines 296-322), or "pass".
\* px is what get_price(top_mint) returns; it is read only when every
\* earlier check passes.
FilterChain(c, allowed, e, px) ==
    LET allow == parse_allowlist(c)
    IN  IF e.err # None THEN "skip_err"
        ELSE IF Falsy(e.signature) \/ Falsy(e.top_mint) THEN "skip_missing_fields"
        ELSE IF allow # Nothing /\ e.top_mint \notin allow[1] THEN "skip_allowlist"
        ELSE IF e.signal \notin allowed THEN "skip_signal_type"
        ELSE IF RLt(top_amount_of(e), c.min_signal_amount) THEN "skip_min_amount"
        ELSE IF RLt(dominance_of(e), c.min_dominance) THEN "skip_min_dominance"
        ELSE IF px = Nothing THEN "skip_no_price"
        ELSE "pass"

\* Whether the loop body reaches line 319 for e: every check before the
\* price lookup passes.
ReachesPriceLookup(c, allowed, e) ==
    FilterChain(c, allowed, e, Some(Z(1))) = "pass"

\* ------------------------------------------------------------ entry (buy)
\* Mutant of AfterBuy: an add to a held position averages the two prices
\* without weighting them by units.
AfterBuy_Unweighted(s, mint, ts, price, trade_units) ==
    LET pos == IF mint \in DOMAIN s.positions THEN s.positions[mint]
               ELSE [units |-> Z(0), avg_entry |-> Z(0), entry_ts |-> 0]
        prev_units == pos.units
        new_units == RAdd(prev_units, trade_units)
    IN  IF RLe(prev_units, Z(0))
        THEN [units |-> new_units, avg_entry |-> price, entry_ts |-> ts]
        ELSE [units |-> new_units,
              avg_entry |-> RDiv(RAdd(pos.avg_entry, price), Z(2)),
              entry_ts |-> pos.entry_ts]

\* Mutant of AfterBuy: a position that exists keeps its entry_ts even when
\* it holds no units.
AfterBuy_StaleEntry(s, mint, ts, price, trade_units) ==
    LET pos == IF mint \in DOMAIN s.positions THEN s.positions[mint]
               ELSE [units |-> Z(0), avg_entry |-> Z(0), entry_ts |-> 0]
        prev_units == pos.units
        new_units == RAdd(prev_units, trade_units)
    IN  IF mint \notin DOMAIN s.positions
        THEN [units |-> new_units, avg_entry |-> price, entry_ts |-> ts]
        ELSE [units |-> new_units,
              avg_entry |-> RDiv(RAdd(RMul(prev_units, pos.avg_entry),
                                      RMul(trade_units, price)),
                                 new_units),
              entry_ts |-> pos.entry_ts]

\* The position after buying trade_units at price (lines 342-353).
AfterBuy(s, mint, ts, price, trade_units) ==
    LET pos == IF mint \in DOMAIN s.positions THEN s.positions[mint]
               ELSE [units |-> Z(0), avg_entry |-> Z(0), entry_ts |-> 0]
        prev_units == pos.units
        new_units == RAdd(prev_units, trade_units)
    IN  IF RLe(prev_units, Z(0))
        THEN [units |-> new_units, avg_entry |-> price, entry_ts |-> ts]
        ELSE [units |-> new_units,
              avg_entry |-> RDiv(RAdd(RMul(prev_units, pos.avg_entry),
                                      RMul(trade_units, price)),
                                 new_units),
              entry_ts |-> pos.entry_ts]

\* Mutant of CanAfford: the cash check is missing.
CanAfford_Unchecked(csh, total_cost) ==
    TRUE

\* Line 336: the buy goes ahead unless total_cost > cash.
CanAfford(csh, total_cost) ==
    ~RLt(csh, total_cost)

\* Lines 328-374 on s = [cash, positions, trades, skipped]; the result adds
\* `outcome`: "skip_insufficient_cash" or "processed".
Entry(c, s, e, ts, price) ==
    LET top_mint == e.top_mint
        trade_units == RMul(top_amount_of(e), c.copy_fraction)
        gross_usd == RMul(trade_units, price)
        fees_usd == RMul(gross_usd, bps_to_mult(c.fee_bps))
        slip_usd == RMul(gross_usd, bps_to_mult(c.slippage_bps))
        total_cost == RAdd(RAdd(gross_usd, fees_usd), slip_usd)
        cash1 == RSub(s.cash, total_cost)
        pos1 == AfterBuy(s, top_mint, ts, price, trade_units)
        row == [ts |-> ts, signature |-> e.signature, side |-> "BUY",
                mint |-> top_mint, signal |-> e.signal,
                observed_amount |-> top_amount_of(e),
                copy_fraction |-> c.copy_fraction, units |-> trade_units,
                price_usd |-> price, gross_usd |-> gross_usd,
                fees_usd |-> fees_usd, slippage_usd |-> slip_usd,
                total_cost_usd |-> total_cost, cash_usd |-> cash1,
                position_units_after |-> pos1.units,
                avg_entry_after |-> pos1.avg_entry]
    IN  IF ~CanAfford(s.cash, total_cost)
        THEN [cash |-> s.cash, positions |-> s.positions, trades |-> s.trades,
              skipped |-> Bump(s.skipped, "skip_insufficient_cash"),
              outcome |-> "skip_insufficient_cash"]
        ELSE [cash |-> cash1,
              positions |-> (top_mint :> pos1) @@ s.positions,
              trades |-> Append(s.trades, row),
              skipped |-> s.skipped,
              outcome |-> "processed"]

\* --------------------------------------------------- the loop body of main
\* The answers the network can give when mark_equity prices the open
\* positions pos: one per open mint that is looked up over the network.
MarkAnswers(pos) ==
    [{m \in OpenMints(pos) : NetworkLookup(m)} -> JupiterAnswers]

\* The answers the network can give to the lookup of line 319: none is asked
\* for when the chain rejects e earlier or the mint is priced locally.
LookupAnswers(c, allowed, e) ==
    IF ReachesPriceLookup(c, allowed, e) /\ NetworkLookup(e.top_mint)
    THEN JupiterAnswers ELSE {Nothing}

\* The position of mint in pos, Nothing when the map has no such key.
PositionOf(pos, mint) ==
    IF mint \in DOMAIN pos THEN Some(pos[mint]) ELSE Nothing

\* maybe_exit run on each mint of `mints` in turn.
RECURSIVE SweepExits(_, _, _, _, _, _, _)
SweepExits(u, c, s, ts, mints, price, trigger_sig) ==
    IF mints = {} THEN s
    ELSE LET m == CHOOSE x \in mints : TRUE
             s1 == maybe_exit(u, c, s, ts, m, price, trigger_sig)
         IN  SweepExits(u, c, [cash |-> s1.cash, positions |-> s1.positions,
                               trades |-> s1.trades, skipped |-> s1.skipped],
                        ts, mints \ {m}, price, trigger_sig)

\* Mutant of ExitThenEntry: the exit rules are evaluated for every held
\* mint, not only for the event's.
ExitThenEntry_AllMints(u, c, s0, e, ts, price) ==
    CHOOSE r \in
        {Entry(c, SweepExits(u, c, [cash |-> s1.cash, positions |-> s1.positions,
                                    trades |-> s1.trades, skipped |-> s1.skipped],
                             ts, DOMAIN s0.positions \ {e.top_mint}, price,
                             e.signature),
               e, ts, price)
           @@ [exit |-> s1.exit,
               mid |-> [cash |-> s1.cash,
                        pos |-> PositionOf(s1.positions, e.top_mint)]]
         : s1 \in {maybe_exit(u, c, s0, ts, e.top_mint, price, e.signature)}} :
        TRUE

\* Mutant of ExitThenEntry: the entry is sized and booked first, the exit
\* rules are evaluated afterwards.
EntryThenExit(u, c, s0, e, ts, price) ==
    CHOOSE r \in
        {IF b.outcome # "processed"
         THEN b @@ [exit |-> None,
                    mid |-> [cash |-> s0.cash,
                             pos |-> PositionOf(s0.positions, e.top_mint)]]
         ELSE maybe_exit(u, c, [cash |-> b.cash, positions |-> b.positions,
                                trades |-> b.trades, skipped |-> b.skipped],
                         ts, e.top_mint, price, e.signature)
              @@ [outcome |-> "processed",
                  mid |-> [cash |-> s0.cash,
                           pos |-> PositionOf(s0.positions, e.top_mint)]]
         : b \in {Entry(c, s0, e, ts, price)}} :
        TRUE

\* Lines 326-374 for an event that passed the filter chain: exit evaluation
\* for the event's mint, then entry sizing on the state the exit left.  The
\* result is that of Entry, with maybe_exit's `exit` and, as `mid`, the cash
\* and the mint's position between the two (line 327).
ExitThenEntry(u, c, s0, e, ts, price) ==
    CHOOSE r \in
        {Entry(c, s1, e, ts, price)
           @@ [exit |-> s1.exit,
               mid |-> [cash |-> s1.cash,
                        pos |-> PositionOf(s1.positions, e.top_mint)]]
         : s1 \in {maybe_exit(u, c, s0, ts, e.top_mint, price, e.signature)}} :
        TRUE

\* The loop body's locals kept for an event rejected by the filter chain.
Rejected(e, verdict, asked) ==
    [e |-> e, outcome |-> verdict, price |-> Nothing, exit |-> None,
     lookups |-> IF asked THEN 1 ELSE 0, mid |-> Nothing, marks |-> <<>>]

\* Mutant of ReachesMark: mark_equity moved ahead of the cash check's
\* `continue`.
ReachesMark_Always(outcome) ==
    TRUE

\* Whether the iteration reaches mark_equity(ts) at line 376: every skip
\* after the filter chain leaves the iteration with `continue`.
ReachesMark(outcome) ==
    outcome = "processed"

\* float(x) of lines 292-294 raises ValueError on a string that is no
\* number; such a field value is written [text |-> ...].
float_raises(v) ==
    v # Nothing /\ "text" \in DOMAIN v[1]

\* Lines 292-294 run before every check of the chain.
LoopHeadRaises(e) ==
    float_raises(e.top_amount) \/ float_raises(e.dominance)

\* An exception leaves main(): the run ends where it stands, nothing is
\* counted or written for the event.
Raised(e) ==
    /\ last.outcome # "raised"
    /\ n' = n + 1
    /\ last' = [e |-> e, outcome |-> "raised", price |-> Nothing,
                exit |-> None, lookups |-> 0, mid |-> Nothing,
                marks |-> <<>>]
    /\ UNCHANGED <<environ, unit, cfg, allowed_signals, cash, positions,
                   trades, equity, skipped>>
    /\ UNCHANGED <<lvars, ivars>>

\* One iteration of `for e in events` (lines 288-376).  net is the network's
\* answer to the price lookup of line 319; mark_equity's lookups are
\* answered by some mk of MarkAnswers.
ProcessEvent(e, net) ==
    LET ts == e._ts
        px == get_price(e.top_mint, net)
        verdict == FilterChain(cfg, allowed_signals, e, px)
        asked == ReachesPriceLookup(cfg, allowed_signals, e)
        s0 == [cash |-> cash, positions |-> positions, trades |-> trades,
               skipped |-> skipped]
    IN  /\ last.outcome # "raised"
        /\ ~LoopHeadRaises(e)
        /\ n' = n + 1
        /\ UNCHANGED <<environ, unit, cfg, allowed_signals>>
        /\ UNCHANGED <<lvars, ivars>>
        /\ IF verdict # "pass"
           THEN /\ skipped' = Bump(skipped, verdict)
                /\ UNCHANGED <<cash, positions, trades, equity>>
                /\ last' = Rejected(e, verdict, asked)
           ELSE \E s2 \in {ExitThenEntry(unit, cfg, s0, e, ts, px[1])} :
                /\ cash' = s2.cash
                /\ positions' = s2.positions
                /\ trades' = s2.trades
                /\ skipped' = s2.skipped
                /\ IF ReachesMark(s2.outcome)
                   THEN \E mk \in MarkAnswers(s2.positions) :
                        /\ equity' = Append(equity,
                               mark_equity(ts, s2.cash, s2.positions, mk))
                        /\ last' = [e |-> e, outcome |-> s2.outcome,
                                    price |-> px, exit |-> s2.exit,
                                    lookups |-> 1 + Cardinality(OpenMints(s2.positions)),
                                    mid |-> Some(s2.mid),
                                    marks |-> [m \in OpenMints(s2.positions) |->
                                                 get_price(m, NetAnswer(mk, m))]]
                   ELSE /\ equity' = equity
                        /\ last' = [e |-> e, outcome |-> s2.outcome,
                                    price |-> px, exit |-> s2.exit,
                                    lookups |-> 1, mid |-> Some(s2.mid),
                                    marks |-> <<>>]

\* --------------------------------------------------------- the event logs
Times ==
    1..MaxTs

\* Events that pass every check a well-formed enriched event can pass.
TradeEvents ==
    [err : {None}, signature : {"sig"}, top_mint : {USDC_MINT, OTHER_MINT},
     signal : {"large_transfer"}, top_amount : {Some(Z(2)), Some(Z(5))},
     dominance : {Some(Rat(9, 10))}, _ts : Times]

\* A well-formed event with one field at fault, one per check of the chain.
BaseEvent ==
    [err |-> None, signature |-> "sig", top_mint |-> OTHER_MINT,
     signal |-> "large_transfer", top_amount |-> Some(Z(5)),
     dominance |-> Some(Rat(9, 10)), _ts |-> 1]

FaultEvents ==
    {[BaseEvent EXCEPT !.err = "InstructionError", !.signal = None,
                       !.top_mint = None, !.top_amount = Nothing,
                       !.dominance = Nothing],
     [BaseEvent EXCEPT !.signal = "tx_missing", !.top_mint = None,
                       !.top_amount = Nothing, !.dominance = Nothing],
     [BaseEvent EXCEPT !.signal = "normal_transfer",
                       !.top_amount = Some(Rat(1, 2))],
     [BaseEvent EXCEPT !.signal = "large_transfer",
                       !.top_amount = Some(Rat(1, 2))],
     [BaseEvent EXCEPT !.dominance = Some(Rat(1, 2))]}

EngineEvents ==
    TradeEvents \cup FaultEvents

\* Every combination of present, absent and failing fields.
AllEvents ==
    [err : {None, "InstructionError"}, signature : {None, "sig"},
     top_mint : {None, USDC_MINT, OTHER_MINT},
     signal : {"normal_transfer", "large_transfer"},
     top_amount : {Some(Rat(1, 2)), Some(Z(5))},
     dominance : {Some(Rat(1, 2)), Some(Rat(9, 10))}, _ts : {1}]

\* Log lines whose numeric fields are absent, numbers, or strings that are
\* no numbers, with and without a signature.
MalformedEvents ==
    {[e EXCEPT !.top_amount = a, !.dominance = d] :
        e \in {BaseEvent, [BaseEvent EXCEPT !.signature = None]},
        a \in {Nothing, Some(Z(5)), Some(NotANumber)},
        d \in {Nothing, Some(Rat(9, 10)), Some(NotANumber)}}

\* ------------------------------------------------- the signal classifier
\* watch_wallet.infer_from_transfers.  A transfer record is a dict with the
\* keys mint (None when absent) and ui_amount (Nothing when absent or None).
\* Mutant of amount_of: the sign of ui_amount is kept.
amount_of_Signed(t) ==
    IF t.ui_amount = Nothing THEN Z(0) ELSE t.ui_amount[1]

\* abs(float(t.get("ui_amount", 0) or 0)) of line 48.
amount_of(t) ==
    IF t.ui_amount = Nothing THEN Z(0) ELSE RAbs(t.ui_amount[1])

\* The list `cleaned` of lines 43-49: (mint, amt) of the records with a mint.
RECURSIVE Cleaned(_)
Cleaned(ts) ==
    IF ts = <<>> THEN <<>>
    ELSE LET t == Head(ts)
             rest == Cleaned(Tail(ts))
         IN  IF Falsy(t.mint) THEN rest
             ELSE <<[mint |-> t.mint, amt |-> amount_of(t)]>> \o rest

\* Mutant of TopIndex: the last of the maximal records is taken.
TopIndex_LastMax(cleaned) ==
    CHOOSE i \in DOMAIN cleaned :
        /\ \A j \in DOMAIN cleaned : RLe(cleaned[j].amt, cleaned[i].amt)
        /\ \A j \in DOMAIN cleaned : j > i => RLt(cleaned[j].amt, cleaned[i].amt)

\* max(cleaned, key=lambda x: x[1]) of line 55: Python's max returns the
\* first of the maximal items.
TopIndex(cleaned) ==
    CHOOSE i \in DOMAIN cleaned :
        /\ \A j \in DOMAIN cleaned : RLe(cleaned[j].amt, cleaned[i].amt)
        /\ \A j \in DOMAIN cleaned : j < i => RLt(cleaned[j].amt, cleaned[i].amt)

\* Lines 58-63.
Label(top_amt) ==
    IF RLe(Z(10), top_amt) THEN "whale_activity"
    ELSE IF RLe(Z(1), top_amt) THEN "large_transfer"
    ELSE "normal_transfer"

infer_from_transfers(ts) ==
    IF ts = <<>> THEN [signal |-> "no_transfers"]
    ELSE LET cleaned == Cleaned(ts)
         IN  IF cleaned = <<>> THEN [signal |-> "no_transfers"]
             ELSE LET total == RSum([i \in DOMAIN cleaned |-> cleaned[i].amt],
                                    DOMAIN cleaned)
                      top == cleaned[TopIndex(cleaned)]
                      dominance == IF RLt(Z(0), total)
                                   THEN RDiv(top.amt, total) ELSE Z(0)
                  IN  [signal |-> Label(top.amt),
                       transfer_count |-> Len(cleaned),
                       top_mint |-> top.mint,
                       top_amount |-> top.amt,
                       total_amount |-> total,
                       dominance |-> dominance]

\* Transfer records and lists the classifier is called on.
TransferRecords ==
    [mint : {None, "X", "Y"},
     ui_amount : {Nothing, Some(Z(-7)), Some(Z(3)), Some(Z(7)),
                  Some(Rat(1, 2)), Some(Z(10))}]

RECURSIVE ListsUpTo(_, _)
ListsUpTo(S, k) ==
    IF k = 0 THEN {<<>>}
    ELSE LET shorter == ListsUpTo(S, k - 1)
         IN  shorter \cup {Append(l, x) : l \in {s \in shorter : Len(s) = k - 1}, x \in S}

TransferLists ==
    ListsUpTo(TransferRecords, MaxTransfers)

\* ------------------------------------------------------------ the listener
\* watch_wallet.py: one asyncio task per watched address, all on one event
\* loop.  A task runs from one suspension point to the next without any
\* other task running; it suspends at websockets.connect, ws.send/ws.recv
\* and asyncio.sleep.  fetch_tx_by_signature is an ordinary (blocking) call
\* and `async with WRITE_LOCK` suspends only when the lock is held, so a
\* task that has received a notification holds the event loop (`running`)
\* until it awaits the next message.
\*
\* pc[w]: "connect"   awaiting websockets.connect            (line 128)
\*        "subscribe" request sent, awaiting the response   (lines 136-137)
\*        "recv"      awaiting a message                    (line 143)
\*        "fetch"     inside fetch_tx_by_signature          (line 162)
\*        "acquire"   awaiting WRITE_LOCK                   (line 28)
\*        "write"     inside the WRITE_LOCK section         (lines 29-30)
\*        "sleep"     in asyncio.sleep(backoff_s)           (line 185)
\*        "done"      ended by CancelledError               (line 181)
Wallets ==
    [A |-> "addrA", B |-> "addrB"]

BACKOFF_FACTOR ==
    Rat(17, 10)

BACKOFF_CAP == 30

\* Mutant of next_backoff: the backoff doubles.
next_backoff_Doubling(b) ==
    RMin(RMul(b, Z(2)), Z(BACKOFF_CAP))

\* Line 186.
next_backoff(b) ==
    RMin(RMul(b, BACKOFF_FACTOR), Z(BACKOFF_CAP))

\* RpcClient.max_retries.
max_retries == 3

\* Mutant of on_exception: the failure ends the task.
on_exception_Raises(p) ==
    "done"

\* `except Exception` of lines 182-183 falls through to the sleep of line
\* 185, from whichever statement p the exception came.
on_exception(p) ==
    "sleep"

\* Mutant of on_cancelled: the cancellation is handled like a failure.
on_cancelled_Swallowed(p) ==
    "sleep"

\* `except asyncio.CancelledError: raise` of lines 180-181.
on_cancelled(p) ==
    "done"

\* Mutant of NeedsFetch: every notification is fetched.
NeedsFetch_Always(sig, err) ==
    TRUE

\* Line 160.
NeedsFetch(sig, err) ==
    ~Falsy(sig) /\ err = None

\* A transaction payload is the list of its parsed instructions, each with
\* program, type, mint and ui_amount (tokenAmount.uiAmount).
TxPayloads ==
    {<<[program |-> "spl-token", type |-> "transfer", mint |-> OTHER_MINT,
        ui_amount |-> Some(Z(5))],
       [program |-> "system", type |-> "transfer", mint |-> None,
        ui_amount |-> Nothing]>>,
     <<[program |-> "spl-token", type |-> "approve", mint |-> OTHER_MINT,
        ui_amount |-> Some(Z(5))],
       [program |-> "spl-token", type |-> "transfer", mint |-> None,
        ui_amount |-> Some(Z(5))]>>}

\* extract_transfers.extract_spl_transfers_from_tx: the token transfer
\* instructions that name a mint.
RECURSIVE extract_spl_transfers_from_tx(_)
extract_spl_transfers_from_tx(tx) ==
    IF tx = <<>> THEN <<>>
    ELSE LET ix == Head(tx)
             rest == extract_spl_transfers_from_tx(Tail(tx))
         IN  IF \/ ix.program \notin {"spl-token", "token"}
                \/ ix.type \notin {"transfer", "transferChecked"}
                \/ Falsy(ix.mint)
             THEN rest
             ELSE <<[mint |-> ix.mint, ui_amount |-> ix.ui_amount]>> \o rest

\* Payloads that are not of the expected shape: a token transfer whose
\* "info" is a string and not an object, and one whose uiAmount is a text
\* that is no number.
BrokenPayloads ==
    {<<[program |-> "spl-token", type |-> "transfer", info |-> "opaque"]>>,
     <<[program |-> "spl-token", type |-> "transfer", mint |-> OTHER_MINT,
        ui_amount |-> Some(NotANumber)]>>}

\* extract_spl_transfers_from_tx raises AttributeError at info.get("mint")
\* (line 70) when the info of a token transfer is no dict.
extract_raises(tx) ==
    \E i \in DOMAIN tx :
        /\ tx[i].program \in {"spl-token", "token"}
        /\ tx[i].type \in {"transfer", "transferChecked"}
        /\ "mint" \notin DOMAIN tx[i]

\* infer_from_transfers raises ValueError at float(...) (line 48) on an
\* amount that is no number, for a transfer that names a mint.
classify_raises(tx) ==
    \E i \in DOMAIN tx :
        /\ tx[i].program \in {"spl-token", "token"}
        /\ tx[i].type \in {"transfer", "transferChecked"}
        /\ ~Falsy(tx[i].mint)
        /\ tx[i].ui_amount = Some(NotANumber)

\* The exception lines 165-171 raise on the fetched payload, None if none.
EnrichmentError(tx) ==
    IF extract_raises(tx) THEN "'str' object has no attribute 'get'"
    ELSE IF classify_raises(tx) THEN "could not convert string to float: 'abc'"
    ELSE None

\* What one attempt of RpcClient._post can come to: the transaction, a null
\* result, or an exception (timeout, HTTP status, RPC error).
FetchResults ==
    {[kind |-> "found", tx |-> tx] : tx \in TxPayloads}
        \cup {[kind |-> "not_found", tx |-> <<>>], [kind |-> "fail", tx |-> <<>>]}

\* Mutant of Enriched: a fetch exception is reported as a missing
\* transaction.
Enriched_ErrorAsMissing(ev, r) ==
    IF r.kind = "found"
    THEN infer_from_transfers(extract_spl_transfers_from_tx(r.tx)) @@ ev
    ELSE [signal |-> "tx_missing"] @@ ev

\* Mutant of Enriched: an exception raised on the fetched payload is not
\* handled where it is raised and the event goes out as it stood.
Enriched_Unhandled(ev, r) ==
    IF r.kind = "not_found" THEN [signal |-> "tx_missing"] @@ ev
    ELSE IF r.kind = "found" /\ EnrichmentError(r.tx) # None THEN ev
    ELSE IF r.kind = "found"
    THEN infer_from_transfers(extract_spl_transfers_from_tx(r.tx)) @@ ev
    ELSE [signal |-> "fetch_failed", error |-> "RPC failed after retries"] @@ ev

\* Lines 161-175: the event after the fetch has returned r or raised, or
\* after the extraction or the classification has raised on r.tx.
Enriched(ev, r) ==
    IF r.kind = "not_found" THEN [signal |-> "tx_missing"] @@ ev
    ELSE IF r.kind = "found" /\ EnrichmentError(r.tx) # None
    THEN [signal |-> "fetch_failed", error |-> EnrichmentError(r.tx)] @@ ev
    ELSE IF r.kind = "found"
    THEN infer_from_transfers(extract_spl_transfers_from_tx(r.tx)) @@ ev
    ELSE [signal |-> "fetch_failed", error |-> "RPC failed after retries"] @@ ev

\* Mutant of Appended: the file is opened for writing, not appending.
Appended_Truncating(lines, line) ==
    <<line>>

\* Mutant of Appended: the line is put at the head of the file.
Appended_AtHead(lines, line) ==
    <<line>> \o lines

\* Lines 29-30: the file after f.write(line + "\n") in append mode.  A line
\* is the event dict: json.loads(json.dumps(d)) = d for these dicts.
Appended(lines, line) ==
    Append(lines, line)

\* Notifications: a signature and an optional chain-level error.
Signatures ==
    {"sig1"}

ChainErrors ==
    {None, "InstructionError"}

\* The reading of time.time() at a write: later than the one before.
ClockReadings ==
    {clock + 1}

\* hist[w], history of listener w kept for stating properties:
\*   sleeps    the arguments of asyncio.sleep since the last subscription
\*   received  the (signature, err) of the notifications received, in order
\*   fetches   calls of fetch_tx_by_signature for the last notification
\*   result    how that call ended: "found", "not_found", "fail" (raised)
\*   at_cancel where the task stood when the shutdown came, None before
HistInit ==
    [sleeps |-> <<>>, received |-> <<>>, fetches |-> 0, result |-> None,
     at_cancel |-> None]

NotesReceived ==
    RSum([w \in DOMAIN watch |-> Z(Len(hist[w].received))], DOMAIN watch).n

\* The task is suspended and the event loop free to resume it.
Resumable(w, at) ==
    /\ pc[w] \in at
    /\ running = None

\* Mutant of EnterWrite: the task suspends between the stamp and the lock,
\* free or not.
EnterWrite_YieldsFirst(w, ev) ==
    \E t \in ClockReadings :
        /\ clock' = t
        /\ event' = [event EXCEPT ![w] = [_ts |-> t] @@ ev]
        /\ WRITE_LOCK' = WRITE_LOCK
        /\ pc' = [pc EXCEPT ![w] = "acquire"]
        /\ running' = None

\* write_signal up to the lock (lines 26-28): the payload is stamped and the
\* lock taken if free; the task suspends only if it is held.
EnterWrite(w, ev) ==
    \E t \in ClockReadings :
        /\ clock' = t
        /\ event' = [event EXCEPT ![w] = [_ts |-> t] @@ ev]
        /\ IF WRITE_LOCK = None
           THEN /\ WRITE_LOCK' = w
                /\ pc' = [pc EXCEPT ![w] = "write"]
                /\ running' = w
           ELSE /\ WRITE_LOCK' = WRITE_LOCK
                /\ pc' = [pc EXCEPT ![w] = "acquire"]
                /\ running' = None

\* websockets.connect succeeds and the subscribe request is sent.
ConnectOk(w) ==
    /\ Resumable(w, {"connect"})
    /\ ~cancelling
    /\ ws' = [ws EXCEPT ![w] = "open"]
    /\ pc' = [pc EXCEPT ![w] = "subscribe"]
    /\ UNCHANGED <<watch, backoff_s, event, attempt, running, WRITE_LOCK, log,
                   clock, cancelling, faults, hist>>
    /\ UNCHANGED <<evars, ivars, pvars>>

\* The response to the subscribe request arrives (lines 137-140).
SubscribeAck(w) ==
    /\ Resumable(w, {"subscribe"})
    /\ ~cancelling
    /\ backoff_s' = [backoff_s EXCEPT ![w] = Z(1)]
    /\ pc' = [pc EXCEPT ![w] = "recv"]
    /\ hist' = [hist EXCEPT ![w].sleeps = <<>>]
    /\ UNCHANGED <<watch, ws, event, attempt, running, WRITE_LOCK, log, clock,
                   cancelling, faults>>
    /\ UNCHANGED <<evars, ivars, pvars>>

\* A logsNotification arrives (lines 143-160).
Notify(w, sig, err) ==
    /\ Resumable(w, {"recv"})
    /\ ~cancelling
    /\ NotesReceived < MaxNotes
    /\ LET ev == [wallet_label |-> w, wallet |-> watch[w], signature |-> sig,
                  err |-> err]
       IN  IF NeedsFetch(sig, err)
           THEN /\ pc' = [pc EXCEPT ![w] = "fetch"]
                /\ running' = w
                /\ event' = [event EXCEPT ![w] = ev]
                /\ attempt' = [attempt EXCEPT ![w] = 1]
                /\ hist' = [hist EXCEPT
                              ![w].received = Append(@, [signature |-> sig, err |-> err]),
                              ![w].fetches = 1, ![w].result = None]
                /\ UNCHANGED <<WRITE_LOCK, clock>>
           ELSE /\ EnterWrite(w, ev)
                /\ hist' = [hist EXCEPT
                              ![w].received = Append(@, [signature |-> sig, err |-> err]),
                              ![w].fetches = 0, ![w].result = None]
                /\ UNCHANGED attempt
    /\ UNCHANGED <<watch, backoff_s, ws, log, cancelling, faults>>
    /\ UNCHANGED <<evars, ivars, pvars>>

\* One attempt of RpcClient._post inside fetch_tx_by_signature (lines 21-35
\* of solana_rpc.py), and what follows its return in the listener.
FetchAttempt(w, r) ==
    /\ pc[w] = "fetch"
    /\ running = w
    /\ IF r.kind = "fail" /\ attempt[w] < max_retries
       THEN /\ attempt' = [attempt EXCEPT ![w] = @ + 1]
            /\ UNCHANGED <<pc, event, running, WRITE_LOCK, clock, hist>>
       ELSE /\ attempt' = [attempt EXCEPT ![w] = 0]
            /\ hist' = [hist EXCEPT ![w].result = r.kind]
            /\ EnterWrite(w, Enriched(event[w], r))
    /\ UNCHANGED <<watch, backoff_s, ws, log, cancelling, faults>>
    /\ UNCHANGED <<evars, ivars, pvars>>

\* The rest of write_signal (lines 28-30) and the return to ws.recv().
Write(w) ==
    IF pc[w] = "acquire"
    THEN /\ Resumable(w, {"acquire"})
         /\ WRITE_LOCK = None
         /\ WRITE_LOCK' = w
         /\ pc' = [pc EXCEPT ![w] = "write"]
         /\ running' = w
         /\ UNCHANGED <<watch, backoff_s, ws, event, attempt, log, clock,
                        cancelling, faults, hist>>
         /\ UNCHANGED <<evars, ivars, pvars>>
    ELSE /\ pc[w] = "write"
         /\ running = w
         /\ log' = Appended(log, event[w])
         /\ WRITE_LOCK' = None
         /\ event' = [event EXCEPT ![w] = <<>>]
         /\ pc' = [pc EXCEPT ![w] = "recv"]
         /\ running' = None
         /\ UNCHANGED <<watch, backoff_s, ws, attempt, clock, cancelling,
                        faults, hist>>
         /\ UNCHANGED <<evars, ivars, pvars>>

\* websockets.connect, ws.send or ws.recv raises (lines 128-143): the
\* `async with` closes the connection, the handler of line 182 takes the
\* exception and the task sleeps for backoff_s.
Fail(w) ==
    /\ Resumable(w, {"connect", "subscribe", "recv"})
    /\ ~cancelling
    /\ faults > 0
    /\ faults' = faults - 1
    /\ ws' = [ws EXCEPT ![w] = "closed"]
    /\ pc' = [pc EXCEPT ![w] = on_exception(pc[w])]
    /\ hist' = [hist EXCEPT ![w].sleeps = Append(@, backoff_s[w])]
    /\ UNCHANGED <<watch, backoff_s, event, attempt, running, WRITE_LOCK, log,
                   clock, cancelling>>
    /\ UNCHANGED <<evars, ivars, pvars>>

\* asyncio.sleep returns (lines 185-186) and the loop connects again.
Wake(w) ==
    /\ Resumable(w, {"sleep"})
    /\ ~cancelling
    /\ backoff_s' = [backoff_s EXCEPT ![w] = next_backoff(@)]
    /\ pc' = [pc EXCEPT ![w] = "connect"]
    /\ UNCHANGED <<watch, ws, event, attempt, running, WRITE_LOCK, log, clock,
                   cancelling, faults, hist>>
    /\ UNCHANGED <<evars, ivars, pvars>>

\* The main task is cancelled (asyncio.run on KeyboardInterrupt, lines
\* 231-235): gather cancels every listener task.
Shutdown ==
    /\ ~cancelling
    /\ cancelling' = TRUE
    /\ hist' = [w \in DOMAIN watch |-> [hist[w] EXCEPT !.at_cancel = pc[w]]]
    /\ UNCHANGED <<watch, pc, backoff_s, ws, event, attempt, running,
                   WRITE_LOCK, log, clock, faults>>
    /\ UNCHANGED <<evars, ivars, pvars>>

\* CancelledError is thrown into the task at the await it is suspended in;
\* the `async with` closes the connection on the way out.
Cancelled(w) ==
    /\ cancelling
    /\ Resumable(w, {"connect", "subscribe", "recv", "acquire", "sleep"})
    /\ ws' = [ws EXCEPT ![w] = "closed"]
    /\ pc' = [pc EXCEPT ![w] = on_cancelled(pc[w])]
    /\ UNCHANGED <<watch, backoff_s, event, attempt, running, WRITE_LOCK, log,
                   clock, cancelling, faults, hist>>
    /\ UNCHANGED <<evars, ivars, pvars>>

\* main() of watch_wallet.py: one task per watched wallet (lines 216-226).
ListenerInit(wallets, budget) ==
    /\ watch = wallets
    /\ pc = [w \in DOMAIN wallets |-> "connect"]
    /\ backoff_s = [w \in DOMAIN wallets |-> Z(1)]
    /\ ws = [w \in DOMAIN wallets |-> "closed"]
    /\ event = [w \in DOMAIN wallets |-> <<>>]
    /\ attempt = [w \in DOMAIN wallets |-> 0]
    /\ running = None
    /\ WRITE_LOCK = None
    /\ log = <<>>
    /\ clock = 0
    /\ cancelling = FALSE
    /\ faults = budget
    /\ hist = [w \in DOMAIN wallets |-> HistInit]

ListenerStep(w) ==
    \/ ConnectOk(w)
    \/ SubscribeAck(w)
    \/ \E sig \in Signatures, err \in ChainErrors : Notify(w, sig, err)
    \/ \E r \in FetchResults : FetchAttempt(w, r)
    \/ Write(w)
    \/ Fail(w)
    \/ Wake(w)
    \/ Cancelled(w)

\* ------------------------------------------------------- specifications
\* The state of a process that is not part of the specification at hand.
ListenerOff ==
    /\ watch = <<>>
    /\ pc = <<>>
    /\ backoff_s = <<>>
    /\ ws = <<>>
    /\ event = <<>>
    /\ attempt = <<>>
    /\ running = None
    /\ WRITE_LOCK = None
    /\ log = <<>>
    /\ clock = 0
    /\ cancelling = FALSE
    /\ faults = 0
    /\ hist = <<>>

ClassifierOff ==
    /\ transfers = <<>>
    /\ inferred = Nothing

PriceClientOff ==
    /\ price_call = Nothing
    /\ price_ret = Nothing

EngineInit(env) ==
    LET r == ResolveConfig(env)
    IN  /\ environ = env
        /\ unit = env["unit"]
        /\ cfg = r.cfg
        /\ allowed_signals = r.allowed_signals
        /\ cash = r.cfg.starting_cash
        /\ positions = <<>>
        /\ trades = <<>>
        /\ equity = <<>>
        /\ skipped = [k \in SkipNames |-> 0]
        /\ n = 0
        /\ last = [e |-> BaseEvent, outcome |-> "start", price |-> Nothing,
                   exit |-> None, lookups |-> 0, mid |-> Nothing,
                   marks |-> <<>>]

Init ==
    /\ \E env \in Envs : EngineInit(env)
    /\ ListenerOff
    /\ ClassifierOff
    /\ PriceClientOff

Next ==
    /\ n < MaxEvents
    /\ UNCHANGED pvars
    /\ \E e \in EngineEvents :
           \E net \in LookupAnswers(cfg, allowed_signals, e) :
               ProcessEvent(e, net)

Spec ==
    Init /\ [][Next]_vars

NextFilter ==
    /\ n < MaxFilterEvents
    /\ UNCHANGED pvars
    /\ \E e \in AllEvents :
           \E net \in LookupAnswers(cfg, allowed_signals, e) :
               ProcessEvent(e, net)

SpecFilter ==
    Init /\ [][NextFilter]_vars

\* A call of infer_from_transfers on some transfer list.
Infer ==
    /\ inferred = Nothing
    /\ inferred' = Some(infer_from_transfers(transfers))
    /\ UNCHANGED <<transfers, evars, lvars, pvars>>

InitInfer ==
    /\ EngineInit(EnvDollar)
    /\ PriceClientOff
    /\ ListenerOff
    /\ transfers \in TransferLists
    /\ inferred = Nothing

NextInfer ==
    Infer

SpecInfer ==
    InitInfer /\ [][NextInfer]_vars

\* The listener process watching both wallets.
InitListen ==
    /\ EngineInit(EnvDollar)
    /\ PriceClientOff
    /\ ClassifierOff
    /\ ListenerInit(Wallets, MaxFaults)

NextListen ==
    \/ \E w \in DOMAIN watch : ListenerStep(w)
    \/ Shutdown

SpecListen ==
    InitListen /\ [][NextListen]_vars

\* An HTTP attempt of w ending with any answer of the RPC. The answer that
\* carries no transaction is listed first; it is one of FetchResults, so the
\* action is exactly \E r \in FetchResults : FetchAttempt(w, r).
FetchEnds(w) ==
    \/ FetchAttempt(w, [kind |-> "not_found", tx |-> <<>>])
    \/ \E r \in FetchResults : FetchAttempt(w, r)

\* The same under the scheduling of the event loop and the network client:
\* a task that can run is run, an HTTP attempt ends (timeout_s), a
\* cancelled await raises.
SpecListenFair ==
    /\ SpecListen
    /\ \A w \in DOMAIN Wallets :
          /\ WF_vars(FetchEnds(w))
          /\ WF_vars(Write(w))
          /\ WF_vars(Cancelled(w))

\* The listener process with WATCH_LABEL=A: one wallet, and a network that
\* can fail often enough to take the backoff to its cap.
InitBackoff ==
    /\ EngineInit(EnvDollar)
    /\ PriceClientOff
    /\ ClassifierOff
    /\ ListenerInit([w \in {"A"} |-> Wallets[w]], MaxLadderFaults)

SpecBackoff ==
    InitBackoff /\ [][NextListen]_vars

\* dict.get(k, default).
GetOr(d, k, default) ==
    IF k \in DOMAIN d THEN d[k] ELSE default

\* execute_signals.load_events and the e.get(...) of lines 289-296 on a line
\* of the listener's log.
load_event(line) ==
    [err |-> GetOr(line, "err", None),
     signature |-> GetOr(line, "signature", None),
     top_mint |-> GetOr(line, "top_mint", None),
     signal |-> GetOr(line, "signal", None),
     top_amount |-> IF "top_amount" \in DOMAIN line
                    THEN Some(line.top_amount) ELSE Nothing,
     dominance |-> IF "dominance" \in DOMAIN line
                   THEN Some(line.dominance) ELSE Nothing,
     _ts |-> line._ts]

\* The engine's loop over the lines of the listener's log.
EngineStep ==
    /\ n < Len(log)
    /\ UNCHANGED pvars
    /\ \E e \in {load_event(log[n + 1])} :
           \E net \in LookupAnswers(cfg, allowed_signals, e) :
               ProcessEvent(e, net)

\* The listener process and the engine run on its log.
InitPipeline ==
    /\ EngineInit(EnvDollar)
    /\ PriceClientOff
    /\ ClassifierOff
    /\ ListenerInit(Wallets, 0)

NextPipeline ==
    \/ \E w \in DOMAIN watch : ListenerStep(w)
    \/ EngineStep

SpecPipeline ==
    InitPipeline /\ [][NextPipeline]_vars

\* A call of get_price on its own: some mint, some course of the attempts.
\* price_call keeps the mint and what the attempts actually made met.
PriceCall ==
    /\ n = 0
    /\ price_call = Nothing
    /\ \E mint \in PriceMints : \E answers \in AttemptLists :
          \E r \in {get_price_call(mint, answers)} :
              /\ price_call' = Some([mint |-> mint,
                                     met |-> SubSeq(answers, 1, r.attempts)])
              /\ price_ret' = Some(r)
    /\ UNCHANGED <<evars, lvars, ivars>>

\* One iteration of the engine's loop with the lookup of line 319 made
\* attempt by attempt; an exception leaving get_price would leave main().
PricedEvent ==
    /\ n < MaxPricedEvents
    /\ n > 0 \/ price_call = Nothing
    /\ \E e \in EngineEvents :
          IF ReachesPriceLookup(cfg, allowed_signals, e)
          THEN \E answers \in AttemptLists :
                 \E r \in {get_price_call(e.top_mint, answers)} :
                    /\ price_call' = Some([mint |-> e.top_mint,
                                           met |-> SubSeq(answers, 1, r.attempts)])
                    /\ price_ret' = Some(r)
                    /\ IF r.raised THEN Raised(e)
                                   ELSE ProcessEvent(e, r.result)
          ELSE /\ UNCHANGED pvars
               /\ ProcessEvent(e, Nothing)

InitPrice ==
    /\ EngineInit(EnvDollar)
    /\ PriceClientOff
    /\ ListenerOff
    /\ ClassifierOff

NextPrice ==
    \/ PriceCall
    \/ PricedEvent

SpecPrice ==
    InitPrice /\ [][NextPrice]_vars

\* The environments main() may be started in: the tier and the overlay flag
\* in several spellings, the options the tier and the overlay touch unset,
\* set below and above the values those would give, or set to a text that
\* is no number.
ConfigEnvs ==
    {[EnvUnset EXCEPT !["PAPER_TIER"] = t,
                      !["PAPER_TEMP_LOWER_THRESHOLDS"] = f,
                      !["PAPER_MIN_SIGNAL_AMOUNT"] = a,
                      !["PAPER_MIN_DOMINANCE"] = d,
                      !["PAPER_HOLD_SECONDS"] = h,
                      !["PAPER_COPY_FRACTION"] = c,
                      !["PAPER_STOP_LOSS_PCT"] = l] :
        t \in {"", "LOW_RISK", " low_risk ", "HIGH_RISK"},
        f \in {"", "1", " TRUE ", "0"},
        a \in {Nothing, Some(Rat(1, 1000)), Some(Z(5)), Some(NotANumber)},
        d \in {Nothing, Some(Rat(1, 10)), Some(Rat(9, 10))},
        h \in {Nothing, Some(Z(60)), Some(Rat(2401, 2)), Some(NotANumber)},
        c \in {Nothing, Some(Rat(1, 5)), Some(NotANumber)},
        l \in {Nothing, Some(Z(2))}}

\* Lines 99-137 of main(): the configuration is resolved from the
\* environment before the first event is read.
Configure ==
    /\ cfg = Nothing
    /\ \E r \in {ResolveConfig(environ)} :
          /\ cfg' = r.cfg
          /\ allowed_signals' = r.allowed_signals
          /\ cash' = r.cfg.starting_cash
    /\ UNCHANGED <<environ, unit, positions, trades, equity, skipped, n, last>>
    /\ UNCHANGED <<lvars, ivars, pvars>>

InitConfig ==
    /\ environ \in ConfigEnvs
    /\ unit = environ["unit"]
    /\ cfg = Nothing
    /\ allowed_signals = {}
    /\ cash = Z(0)
    /\ positions = <<>>
    /\ trades = <<>>
    /\ equity = <<>>
    /\ skipped = [k \in SkipNames |-> 0]
    /\ n = 0
    /\ last = [e |-> BaseEvent, outcome |-> "start", price |-> Nothing,
               exit |-> None, lookups |-> 0, mid |-> Nothing,
               marks |-> <<>>]
    /\ ListenerOff
    /\ ClassifierOff
    /\ PriceClientOff

NextConfig ==
    Configure

SpecConfig ==
    InitConfig /\ [][NextConfig]_vars

\* One listener whose fetches may also return payloads of unexpected shape.
InitEnrich ==
    /\ EngineInit(EnvDollar)
    /\ PriceClientOff
    /\ ClassifierOff
    /\ ListenerInit([w \in {"A"} |-> Wallets[w]], MaxFaults)

NextEnrich ==
    \/ \E w \in DOMAIN watch : ListenerStep(w)
    \/ \E w \in DOMAIN watch :
          \E tx \in BrokenPayloads : FetchAttempt(w, [kind |-> "found", tx |-> tx])
    \/ Shutdown

SpecEnrich ==
    InitEnrich /\ [][NextEnrich]_vars

\* Lines of the log that carry no enrichment: as the listener writes them
\* when a transaction has no transfers, is not found or cannot be fetched,
\* and the same signals on an otherwise complete line.
UnenrichedEvents ==
    {load_event([wallet_label |-> "A", wallet |-> "addrA", signature |-> "sig",
                 err |-> None, signal |-> sgn, _ts |-> 1])
        : sgn \in {"no_transfers", "tx_missing", "fetch_failed"}}
    \cup {[BaseEvent EXCEPT !.signal = sgn]
             : sgn \in {"no_transfers", "tx_missing", "fetch_failed"}}

\* A longer run of the engine trading dust, on well-formed events written
\* within the same second.
InitDust ==
    /\ EngineInit(EnvDust)
    /\ ListenerOff
    /\ ClassifierOff
    /\ PriceClientOff

NextDust ==
    /\ n < MaxDustEvents
    /\ UNCHANGED pvars
    /\ \E e \in {t \in TradeEvents : t._ts = 1} \cup UnenrichedEvents :
           \E net \in LookupAnswers(cfg, allowed_signals, e) :
               ProcessEvent(e, net)

SpecDust ==
    InitDust /\ [][NextDust]_vars

\* The engine on log lines of any shape.
NextRobust ==
    /\ n < MaxFilterEvents
    /\ UNCHANGED pvars
    /\ \E e \in AllEvents \cup MalformedEvents :
          IF LoopHeadRaises(e)
          THEN Raised(e)
          ELSE \E net \in LookupAnswers(cfg, allowed_signals, e) :
                  ProcessEvent(e, net)

SpecRobust ==
    Init /\ [][NextRobust]_vars


\* What the lookup returns when the body carries a price of any value: line
\* 56 returns float(price) unchecked, a price of zero included.
UncheckedAnswers ==
    JupiterAnswers \cup {Some(Z(0))}

\* The answers to the lookup of line 319 when the feed may quote zero.
UncheckedLookupAnswers(c, allowed, e) ==
    IF ReachesPriceLookup(c, allowed, e) /\ NetworkLookup(e.top_mint)
    THEN UncheckedAnswers ELSE {Nothing}

\* The engine on well-formed events for a mint priced over the network, the
\* feed quoting any price.
InitAnyPrice ==
    /\ EngineInit(EnvDollar)
    /\ ListenerOff
    /\ ClassifierOff
    /\ PriceClientOff

NextAnyPrice ==
    /\ n < MaxEvents
    /\ UNCHANGED pvars
    /\ \E e \in {t \in TradeEvents : t.top_mint = OTHER_MINT} :
           \E net \in UncheckedLookupAnswers(cfg, allowed_signals, e) :
               ProcessEvent(e, net)

SpecAnyPrice ==
    InitAnyPrice /\ [][NextAnyPrice]_vars


\* ====================================================================
\* Properties of the execution engine
\* ====================================================================
FilterSkips ==
    {"skip_err", "skip_missing_fields", "skip_allowlist", "skip_signal_type",
     "skip_min_amount", "skip_min_dominance", "skip_no_price"}

ExitReasons ==
    {"take_profit", "stop_loss", "time_exit"}

\* The event just processed passed the filter chain.
PassedChain(l) ==
    l.outcome \in {"processed", "skip_insufficient_cash"}

IsBuy(row) ==
    row.side = "BUY"

IsSell(row) ==
    row.side = "SELL"

\* C1: in every reachable state cash >= 0 and every position's units >= 0;
\* a buy whose total_cost exceeds the cash at hand is rejected, never
\* clipped: every BUY row buys the full top_amount * copy_fraction, leaves
\* cash_after >= 0, and a rejection for insufficient cash happens exactly
\* when the full cost exceeds the cash the entry step found.
C1_CashAndUnitsNonNegative ==
    /\ RLe(Z(0), cash)
    /\ \A m \in DOMAIN positions : RLe(Z(0), positions[m].units)
    /\ \A i \in DOMAIN trades :
          IsBuy(trades[i]) =>
              /\ trades[i].units = RMul(trades[i].observed_amount, cfg.copy_fraction)
              /\ RLe(Z(0), trades[i].cash_usd)
    /\ last.outcome = "skip_insufficient_cash" =>
          RLt(last.mid[1].cash,
              RMul(RMul(RMul(top_amount_of(last.e), cfg.copy_fraction), last.price[1]),
                   RAdd(Z(1), RDiv(RAdd(cfg.fee_bps, cfg.slippage_bps), Z(BPS_DENOM)))))

\* C1 witness: a buy has just been rejected for insufficient cash while a
\* position bought earlier is still held.
C1_Witness ==
    /\ last.outcome = "skip_insufficient_cash"
    /\ \E m \in DOMAIN positions : RLt(Z(0), positions[m].units)
    /\ RLt(cash, cfg.starting_cash)

\* C2 (as claimed): an event that ends in skip_insufficient_cash leaves cash,
\* all positions and the ledger length as they were before the event.
C2_RejectedBuyMutatesNothing ==
    [][last'.outcome = "skip_insufficient_cash" =>
          /\ cash' = cash
          /\ positions' = positions
          /\ Len(trades') = Len(trades)]_vars

\* C3: an event rejected by a filter-chain check leaves cash, every
\* position, the trade ledger and the equity curve unchanged; the only state
\* that changes is that one skip counter, which grows by exactly 1.
C3_FilterRejectionFrame ==
    [][last'.outcome \in FilterSkips =>
          /\ cash' = cash
          /\ positions' = positions
          /\ trades' = trades
          /\ equity' = equity
          /\ skipped'[last'.outcome] = skipped[last'.outcome] + 1
          /\ \A k \in SkipNames \ {last'.outcome} : skipped'[k] = skipped[k]]_vars

\* C3 witness (Scenario C): an event with dominance 0.5 against
\* min_dominance 0.7 has just been rejected while a position is held and the
\* ledger and the equity curve are not empty.
C3_Witness ==
    /\ last.outcome = "skip_min_dominance"
    /\ last.e.dominance = Some(Rat(5, 10))
    /\ cfg.min_dominance = Rat(7, 10)
    /\ skipped["skip_min_dominance"] = 1
    /\ \E m \in DOMAIN positions : RLt(Z(0), positions[m].units)
    /\ trades # <<>>
    /\ equity # <<>>

\* The checks of the chain in their order, and what it is for an event to
\* fail one of the checks made before the price lookup.
ChainOrder ==
    <<"skip_err", "skip_missing_fields", "skip_allowlist", "skip_signal_type",
      "skip_min_amount", "skip_min_dominance", "skip_no_price">>

FailsCheck(e, k) ==
    CASE k = "skip_err" -> e.err # None
      [] k = "skip_missing_fields" ->
            e.signature \in {None, ""} \/ e.top_mint \in {None, ""}
      [] k = "skip_allowlist" ->
            /\ cfg.allow_mints_csv # <<>>
            /\ \A i \in DOMAIN cfg.allow_mints_csv : cfg.allow_mints_csv[i] # e.top_mint
      [] k = "skip_signal_type" -> e.signal \notin allowed_signals
      [] k = "skip_min_amount" ->
            \/ e.top_amount = Nothing /\ RLt(Z(0), cfg.min_signal_amount)
            \/ e.top_amount # Nothing /\ RLt(e.top_amount[1], cfg.min_signal_amount)
      [] k = "skip_min_dominance" ->
            \/ e.dominance = Nothing /\ RLt(Z(0), cfg.min_dominance)
            \/ e.dominance # Nothing /\ RLt(e.dominance[1], cfg.min_dominance)

FailedChecks(e) ==
    {i \in 1..6 : FailsCheck(e, ChainOrder[i])}

\* C4: the chain's checks run in the fixed order err, missing fields,
\* allowlist, signal type, min amount, min dominance, price.  An event that
\* fails one or more of the first six increments only the counter of the
\* first of them and the price oracle is not consulted; otherwise the oracle
\* is consulted, and the event is rejected with skip_no_price exactly when
\* it has no price.
C4_FilterOrder ==
    [][n' = n + 1 =>
          LET e == last'.e
              failed == FailedChecks(e)
              first == CHOOSE i \in failed : \A j \in failed : i <= j
          IN  IF failed # {}
              THEN /\ last'.outcome = ChainOrder[first]
                   /\ last'.lookups = 0
                   /\ skipped' = [skipped EXCEPT ![ChainOrder[first]] = @ + 1]
              ELSE /\ last'.lookups >= 1
                   /\ \/ /\ last'.outcome = "skip_no_price"
                         /\ last'.price = Nothing
                         /\ skipped' = [skipped EXCEPT !["skip_no_price"] = @ + 1]
                      \/ /\ PassedChain(last')
                         /\ last'.price # Nothing]_vars

\* C4 witness: an event that fails the err, missing-fields, signal-type,
\* amount and dominance checks at once has been counted as skip_err only.
C4_Witness ==
    /\ last.outcome = "skip_err"
    /\ {1, 2, 4, 5, 6} \subseteq FailedChecks(last.e)
    /\ skipped = [k \in SkipNames |-> IF k = "skip_err" THEN 1 ELSE 0]
    /\ last.lookups = 0

\* The cost side of a trade of `units` at `price`: fees and slippage are
\* gross * bps / 10000 each.
GrossOf(units, price) ==
    RMul(units, price)

CostOf(gross, bps) ==
    RDiv(RMul(gross, bps), Z(10000))

BuyCostOf(e, price) ==
    LET gross == GrossOf(RMul(top_amount_of(e), cfg.copy_fraction), price)
    IN  RAdd(gross, RAdd(CostOf(gross, cfg.fee_bps), CostOf(gross, cfg.slippage_bps)))

\* Scenario A: the default configuration's first event, top_amount 5 of a
\* mint priced 2.0, has been processed.
ScenarioA ==
    /\ unit = "one"
    /\ cfg.starting_cash = Z(1000) /\ cfg.copy_fraction = Rat(1, 10)
    /\ cfg.fee_bps = Z(20) /\ cfg.slippage_bps = Z(30)
    /\ n >= 1
    /\ trades # <<>>
    /\ trades[1].side = "BUY"
    /\ trades[1].observed_amount = Z(5)
    /\ trades[1].price_usd = Z(2)

\* Scenario B: after Scenario A, the second event is for the same mint at
\* price 2.05 with take_profit_pct 2.0, and it passed the filter chain.
ScenarioB ==
    /\ ScenarioA
    /\ n = 2
    /\ cfg.take_profit_pct = Z(2)
    /\ PassedChain(last)
    /\ last.e.top_mint = trades[1].mint
    /\ last.price = Some(Rat(205, 100))

\* C5: for an event that passes the filter chain, exit evaluation for its
\* mint runs before entry sizing, on the same resolved price: a sale made by
\* the event is the first row the event appends, at the event's price; a
\* buy by the same event is the row after it, at the same price, and is
\* checked against and paid from the cash the sale left; a rejected buy is
\* one whose cost exceeds the cash the sale left.  Scenario B sells all 0.5
\* units with reason take_profit before the buy is sized.
C5_ExitBeforeEntry ==
    /\ [][PassedChain(last') /\ last'.exit \in ExitReasons =>
            LET k == Len(trades) + 1
                sell == trades'[k]
                price == last'.price[1]
            IN  /\ Len(trades') >= k
                /\ SubSeq(trades', 1, Len(trades)) = trades
                /\ IsSell(sell)
                /\ sell.mint = last'.e.top_mint
                /\ sell.price_usd = price
                /\ sell.cash_usd = RAdd(cash, sell.net_usd)
                /\ IF last'.outcome = "processed"
                   THEN /\ Len(trades') = k + 1
                        /\ IsBuy(trades'[k + 1])
                        /\ trades'[k + 1].price_usd = price
                        /\ RLe(trades'[k + 1].total_cost_usd, sell.cash_usd)
                        /\ trades'[k + 1].cash_usd =
                               RSub(sell.cash_usd, trades'[k + 1].total_cost_usd)
                        /\ cash' = trades'[k + 1].cash_usd
                   ELSE /\ Len(trades') = k
                        /\ RLt(sell.cash_usd, BuyCostOf(last'.e, price))
                        /\ cash' = sell.cash_usd]_vars
    /\ [](ScenarioB =>
            /\ Len(trades) = 3
            /\ IsSell(trades[2])
            /\ trades[2].reason = "take_profit"
            /\ trades[2].units = Rat(5, 10)
            /\ trades[2].pnl_pct_vs_entry = Rat(25, 10)
            /\ IsBuy(trades[3])
            /\ trades[3].position_units_after = trades[3].units)

\* C5 witness: Scenario B has run: the second event sold the 0.5 units for
\* take_profit and then bought again.
C5_Witness ==
    /\ ScenarioB
    /\ Len(trades) = 3
    /\ trades[2].reason = "take_profit"
    /\ IsBuy(trades[3])

\* C5 second case reached: a buy that only the sale of the same event made
\* affordable.
C5_BuyPaidFromSale ==
    /\ last.outcome = "processed"
    /\ last.exit \in ExitReasons
    /\ Len(trades) >= 2
    /\ RLt(RSub(trades[Len(trades) - 1].cash_usd, trades[Len(trades) - 1].net_usd),
           trades[Len(trades)].total_cost_usd)

\* The exit rule the specification gives for a position entered at avg (> 0)
\* at time entry_ts, seen at `price` at time ts.  pnl_pct >= x is compared
\* as (price - avg) * 100 >= x * avg.
RuleFor(avg, entry_ts, price, ts) ==
    LET gain == RMul(RSub(price, avg), Z(100))
        sl == IF RLe(Z(0), cfg.stop_loss_pct) THEN cfg.stop_loss_pct
              ELSE RNeg(cfg.stop_loss_pct)
    IN  IF RLe(RMul(cfg.take_profit_pct, avg), gain) THEN "take_profit"
        ELSE IF RLe(gain, RNeg(RMul(sl, avg))) THEN "stop_loss"
        ELSE IF ts - entry_ts >= cfg.hold_seconds THEN "time_exit"
        ELSE "no_exit"

\* C6: for a position with units > 0 the exit reason is take_profit if
\* pnl_pct >= take_profit_pct, else stop_loss if pnl_pct <= -|stop_loss_pct|,
\* else time_exit if held >= hold_seconds, else there is no exit: no SELL row
\* is appended and exit evaluation leaves the position as it was.  A SELL
\* row carries the highest-priority reason.
C6_ExitPriority ==
    [][/\ PassedChain(last')
       /\ last'.e.top_mint \in DOMAIN positions
       /\ RLt(Z(0), positions[last'.e.top_mint].units)
       =>
          LET pos == positions[last'.e.top_mint]
              rule == RuleFor(pos.avg_entry, pos.entry_ts, last'.price[1], last'.e._ts)
              k == Len(trades) + 1
          IN  /\ last'.exit = rule
              /\ IF rule = "no_exit"
                 THEN /\ last'.mid[1].pos = Some(pos)
                      /\ last'.mid[1].cash = cash
                      /\ \A i \in k..Len(trades') : ~IsSell(trades'[i])
                 ELSE /\ IsSell(trades'[k])
                      /\ trades'[k].reason = rule]_vars

\* C6 witness: a position entered at time 1 at price 2 is seen at time 2 at
\* price 2.05, so that both the take-profit and the time rule hold, and it
\* has been sold for take_profit.
C6_Witness ==
    /\ n = 2
    /\ Len(trades) >= 2
    /\ IsBuy(trades[1]) /\ trades[1].ts = 1 /\ trades[1].price_usd = Z(2)
    /\ IsSell(trades[2]) /\ trades[2].ts = 2 /\ trades[2].price_usd = Rat(41, 20)
    /\ trades[2].ts - trades[1].ts >= cfg.hold_seconds
    /\ trades[2].reason = "take_profit"
    /\ last.exit = "take_profit"

\* x < 1e-12 for x in the run's unit of account (in whole units: x <= 0, as
\* for AtMostEpsilon).
BelowEpsilon(u, x) ==
    IF u = "pico" THEN RLt(x, Z(EPSILON)) ELSE RLe(x, Z(0))

FlatPosition ==
    [units |-> Z(0), avg_entry |-> Z(0), entry_ts |-> 0]

SellRowsIn(rows, from) ==
    {i \in from..Len(rows) : IsSell(rows[i])}

BuyRowsIn(rows, from) ==
    {i \in from..Len(rows) : IsBuy(rows[i])}

\* What a step that sold must satisfy; `snaps` says of the remaining units
\* whether the position is zeroed.
SaleStep(snaps(_)) ==
    PassedChain(last') /\ last'.exit \in ExitReasons =>
        LET pos == positions[last'.e.top_mint]
            price == last'.price[1]
            k == Len(trades) + 1
            row == trades'[k]
            left == RSub(pos.units, row.units)
        IN  /\ SellRowsIn(trades', k) = {k}
            /\ row.reason = last'.exit
            /\ row.units = RMul(pos.units, cfg.sell_fraction)
            /\ row.gross_usd = GrossOf(row.units, price)
            /\ row.fees_usd = CostOf(row.gross_usd, cfg.fee_bps)
            /\ row.slippage_usd = CostOf(row.gross_usd, cfg.slippage_bps)
            /\ row.net_usd =
                   RSub(row.gross_usd, RAdd(row.fees_usd, row.slippage_usd))
            /\ last'.mid[1].cash = RAdd(cash, row.net_usd)
            /\ row.cash_usd = last'.mid[1].cash
            /\ last'.mid[1].pos =
                   Some(IF snaps(left) THEN FlatPosition
                        ELSE [units |-> left, avg_entry |-> pos.avg_entry,
                              entry_ts |-> pos.entry_ts])

SnapsAtOrBelow(left) ==
    AtMostEpsilon(unit, left)

SnapsBelow(left) ==
    BelowEpsilon(unit, left)

\* C7 (amended): when an exit triggers on a position of u units at price p,
\* sell_units = u * sell_fraction, gross = sell_units * p, fees and slippage
\* are gross * bps / 10000, cash increases by exactly gross - fees -
\* slippage, units decrease by sell_units and exactly one SELL row with the
\* triggering reason is appended; if the remaining units are at or below
\* 1e-12 then units, avg_entry_price and entry_timestamp are set to zero,
\* otherwise avg_entry_price and entry_timestamp are unchanged.
C7_Sale ==
    [][SaleStep(SnapsAtOrBelow)]_vars

\* C7 (as claimed): the same with the position zeroed only when the
\* remaining units are below 1e-12.
C7_SaleSnapsOnlyBelowEpsilon ==
    [][SaleStep(SnapsBelow)]_vars

\* C7 witness: half of a 2e-12 position has been sold; the remaining units
\* were exactly 1e-12 and the position has been zeroed.
C7_Witness ==
    /\ unit = "pico"
    /\ last.exit \in ExitReasons
    /\ Len(trades) >= 2
    /\ \E k \in DOMAIN trades :
          /\ IsSell(trades[k])
          /\ k = Len(trades) - (IF last.outcome = "processed" THEN 1 ELSE 0)
          /\ trades[k].units = Z(EPSILON)
          /\ cfg.sell_fraction = Rat(1, 2)
    /\ last.mid[1].pos = Some(FlatPosition)

\* What a step that bought must satisfy.
BuyStep ==
    last'.outcome = "processed" =>
        LET e == last'.e
            m == e.top_mint
            price == last'.price[1]
            before == last'.mid[1]
            prev == IF before.pos = Nothing THEN FlatPosition ELSE before.pos[1]
            row == trades'[Len(trades')]
            now == positions'[m]
        IN  /\ BuyRowsIn(trades', Len(trades) + 1) = {Len(trades')}
            /\ row.units = RMul(top_amount_of(e), cfg.copy_fraction)
            /\ row.gross_usd = GrossOf(row.units, price)
            /\ row.fees_usd = CostOf(row.gross_usd, cfg.fee_bps)
            /\ row.slippage_usd = CostOf(row.gross_usd, cfg.slippage_bps)
            /\ row.total_cost_usd =
                   RAdd(row.gross_usd, RAdd(row.fees_usd, row.slippage_usd))
            /\ cash' = RSub(before.cash, row.total_cost_usd)
            /\ row.cash_usd = cash'
            /\ now.units = RAdd(prev.units, row.units)
            /\ IF prev.units = Z(0)
               THEN /\ now.avg_entry = price
                    /\ now.entry_ts = e._ts
               ELSE /\ now.avg_entry =
                         RDiv(RAdd(RMul(prev.units, prev.avg_entry),
                                   RMul(row.units, price)),
                              now.units)
                    /\ now.entry_ts = prev.entry_ts

\* C8: an accepted buy sizes trade_units = top_amount * copy_fraction, takes
\* exactly total_cost = gross + fees + slippage from cash, adds trade_units
\* to the mint's units and appends exactly one BUY row; a flat position gets
\* avg_entry_price = price and entry_timestamp = event time, a held one the
\* cost-weighted average and an unchanged entry_timestamp.  Scenario A gives
\* a BUY of 0.5 units, gross 1.0, fees 0.002, slippage 0.003, total_cost
\* 1.005 and cash 998.995.
C8_Buy ==
    /\ [][BuyStep]_vars
    /\ [](ScenarioA =>
            /\ trades[1].units = Rat(5, 10)
            /\ trades[1].gross_usd = Z(1)
            /\ trades[1].fees_usd = Rat(2, 1000)
            /\ trades[1].slippage_usd = Rat(3, 1000)
            /\ trades[1].total_cost_usd = Rat(1005, 1000)
            /\ trades[1].cash_usd = Rat(998995, 1000)
            /\ (n = 1 => cash = Rat(998995, 1000)))

\* C8 witness: a buy has been added to a held position at a price other
\* than its entry price, so that the new average lies strictly between.
C8_Witness ==
    /\ last.outcome = "processed"
    /\ last.mid[1].pos # Nothing
    /\ RLt(Z(0), last.mid[1].pos[1].units)
    /\ RLt(last.mid[1].pos[1].avg_entry, positions[last.e.top_mint].avg_entry)
    /\ RLt(positions[last.e.top_mint].avg_entry, last.price[1])

\* C8 second case reached: Scenario A itself.
C8_ScenarioAReached ==
    ScenarioA /\ n = 1

\* C9: every position with units = 0 has avg_entry_price = 0 and
\* entry_timestamp = 0, and a mint once present in the position map is never
\* removed from it.
C9_ZeroedNeverDeleted ==
    /\ [](\A m \in DOMAIN positions :
            positions[m].units = Z(0) =>
                positions[m].avg_entry = Z(0) /\ positions[m].entry_ts = 0)
    /\ [][DOMAIN positions \subseteq DOMAIN positions']_vars

\* C9 witness: a mint that was bought and sold out is still in the map, with
\* units, entry price and entry time all zero.
C9_Witness ==
    \E m \in DOMAIN positions :
        /\ positions[m] = FlatPosition
        /\ \E i \in DOMAIN trades : IsSell(trades[i]) /\ trades[i].mint = m

\* C10: every EquitySnapshot has equity = cash + position_value; the one just
\* appended has the engine's cash, position_value = the sum of units * price
\* over exactly the mints with units > 0 whose price resolved at marking
\* time, and open_position_count = the number of mints with units > 0,
\* priced or not.
C10_EquityIdentity ==
    /\ \A i \in DOMAIN equity :
          equity[i].equity_usd = RAdd(equity[i].cash_usd, equity[i].position_value_usd)
    /\ last.outcome = "processed" =>
          LET snap == equity[Len(equity)]
              open == {m \in DOMAIN positions : RLt(Z(0), positions[m].units)}
              valued == {m \in open : last.marks[m] # Nothing}
              worth == [m \in valued |-> RMul(positions[m].units, last.marks[m][1])]
          IN  /\ snap.cash_usd = cash
              /\ snap.position_value_usd = RSum(worth, valued)
              /\ snap.open_positions = Cardinality(open)

\* C10 witness: two positions are open, one with no resolvable price at
\* marking time; the snapshot values the other one only and counts both.
C10_Witness ==
    /\ last.outcome = "processed"
    /\ \E m1, m2 \in DOMAIN last.marks :
          /\ last.marks[m1] = Nothing
          /\ last.marks[m2] # Nothing
          /\ equity[Len(equity)].position_value_usd =
                 RMul(positions[m2].units, last.marks[m2][1])
    /\ equity[Len(equity)].open_positions = 2
    /\ RLt(Z(0), equity[Len(equity)].position_value_usd)

\* The skip reasons that end an event's processing (`continue`);
\* skip_no_position is counted by maybe_exit and processing goes on.
RejectingSkips ==
    SkipNames \ {"skip_no_position"}

RejectedSoFar ==
    RSum([k \in RejectingSkips |-> Z(skipped[k])], RejectingSkips).n

\* C11: exactly one EquitySnapshot is appended for every event not rejected
\* by a skip reason and none for a rejected one: the equity curve is as long
\* as the number of non-rejected events consumed, and the snapshot of an
\* event carries the engine's cash at the end of that event.
C11_OneSnapshotPerProcessedEvent ==
    /\ [](Len(equity) = n - RejectedSoFar)
    /\ [][IF last'.outcome \in RejectingSkips
          THEN equity' = equity
          ELSE /\ Len(equity') = Len(equity) + 1
               /\ SubSeq(equity', 1, Len(equity)) = equity
               /\ equity'[Len(equity')].cash_usd = cash'
               /\ equity'[Len(equity')].ts = last'.e._ts]_vars

\* C11 witness: of two events one was processed (a first buy, counted under
\* skip_no_position) and one rejected; the curve has one snapshot.
C11_Witness ==
    /\ n = 2
    /\ Len(equity) = 1
    /\ skipped["skip_no_position"] = 1
    /\ last.outcome = "skip_insufficient_cash"

\* The specified classifier: the records with a mint, their amounts, and
\* the first record of maximal amount among them.
WithMint(ts) ==
    {i \in DOMAIN ts : ts[i].mint # None /\ ts[i].mint # ""}

AmountAt(ts, i) ==
    IF ts[i].ui_amount = Nothing THEN Z(0) ELSE RAbs(ts[i].ui_amount[1])

TopTransfer(ts) ==
    CHOOSE i \in WithMint(ts) :
        \A j \in WithMint(ts) :
            /\ RLe(AmountAt(ts, j), AmountAt(ts, i))
            /\ AmountAt(ts, j) = AmountAt(ts, i) => i <= j

ScenarioE ==
    transfers = <<[mint |-> "X", ui_amount |-> Some(Z(3))],
                  [mint |-> "X", ui_amount |-> Some(Z(7))]>>

\* C20: infer_from_transfers agrees with the specified classifier on every
\* transfer list: no record with a mint gives exactly {signal: no_transfers};
\* otherwise the top transfer is the first record of maximum |ui_amount|
\* among those with a mint, transfer_count their number, total_amount the sum
\* of their |ui_amount|, and the signal whale_activity from 10, large_transfer
\* from 1, else normal_transfer.  Scenario E gives top_amount 7, total_amount
\* 10, dominance 0.7, large_transfer.
C20_Classifier ==
    inferred # Nothing =>
        LET r == inferred[1]
            with == WithMint(transfers)
        IN  /\ IF with = {}
               THEN r = [signal |-> "no_transfers"]
               ELSE LET top == TopTransfer(transfers)
                        total == RSum([i \in with |-> AmountAt(transfers, i)], with)
                    IN  /\ r.top_mint = transfers[top].mint
                        /\ r.top_amount = AmountAt(transfers, top)
                        /\ r.transfer_count = Cardinality(with)
                        /\ r.total_amount = total
                        /\ r.dominance = IF total = Z(0) THEN Z(0)
                                         ELSE RDiv(r.top_amount, total)
                        /\ r.signal =
                             IF RLe(Z(10), r.top_amount) THEN "whale_activity"
                             ELSE IF RLe(Z(1), r.top_amount) THEN "large_transfer"
                             ELSE "normal_transfer"
            /\ ScenarioE =>
                  r = [signal |-> "large_transfer", transfer_count |-> 2,
                       top_mint |-> "X", top_amount |-> Z(7),
                       total_amount |-> Z(10), dominance |-> Rat(7, 10)]

\* C20 witness: two records of different mints tie on |ui_amount| (-7 and
\* 7); the first one has been taken as the top transfer.
C20_Witness ==
    /\ inferred # Nothing
    /\ transfers = <<[mint |-> "X", ui_amount |-> Some(Z(-7))],
                     [mint |-> "Y", ui_amount |-> Some(Z(7))]>>
    /\ inferred[1].top_mint = "X"
    /\ inferred[1].top_amount = Z(7)

\* C20 second case reached: Scenario E has been classified.
C20_ScenarioEReached ==
    ScenarioE /\ inferred # Nothing

\* The k-th sleep of a run of consecutive failures.
LadderAt(k) ==
    IF k > 7 THEN Z(30)
    ELSE <<Z(1), Rat(17, 10), Rat(289, 100), Rat(4913, 1000),
           Rat(83521, 10000), Rat(1419857, 100000),
           Rat(24137569, 1000000)>>[k]

Subscribes(w) ==
    pc[w] = "subscribe" /\ pc'[w] = "recv"

\* C12: the sleeps of a listener over consecutive failures with no
\* subscription in between are 1.0, 1.7, 2.89, 4.913, 8.3521, 14.19857,
\* 24.137569, 30, 30, ...; the backoff stays within [1.0, 30], does not
\* decrease between resets and is 1.0 right after a subscribe
\* acknowledgement, so the first sleep after a subscribed connection fails
\* is 1.0.
C12_Backoff ==
    /\ [](\A w \in DOMAIN watch :
            /\ \A k \in DOMAIN hist[w].sleeps : hist[w].sleeps[k] = LadderAt(k)
            /\ RLe(Z(1), backoff_s[w]) /\ RLe(backoff_s[w], Z(30)))
    /\ [][\A w \in DOMAIN watch :
            /\ Subscribes(w) => backoff_s'[w] = Z(1)
            /\ ~Subscribes(w) => RLe(backoff_s[w], backoff_s'[w])
            /\ pc[w] = "recv" /\ pc'[w] = "sleep" =>
                  hist'[w].sleeps = <<Z(1)>>]_vars

\* C12 witness: nine failures in a row; the eighth and ninth sleeps were 30.
C12_Witness ==
    \E w \in DOMAIN watch :
        /\ Len(hist[w].sleeps) >= 9
        /\ hist[w].sleeps[7] = Rat(24137569, 1000000)
        /\ hist[w].sleeps[8] = Z(30)
        /\ hist[w].sleeps[9] = Z(30)

\* C12 second case reached: a subscribed connection failed after earlier
\* failures had raised the backoff, and the sleep was 1.0 again.
C12_ResetReached ==
    \E w \in DOMAIN watch :
        /\ pc[w] = "sleep"
        /\ hist[w].sleeps = <<Z(1)>>
        /\ faults <= MaxLadderFaults - 3

\* The step is a connection failure of listener w.
Fails(w) ==
    faults' = faults - 1 /\ pc'[w] # pc[w]

\* C13: a connect, subscribe or receive failure never ends a listener: it
\* closes the connection and is followed by a sleep of the current backoff
\* and then by a new connect attempt; a listener ends only by cancellation,
\* and a failure of one listener changes nothing in another.
C13_FailuresNeverFatal ==
    /\ [](\A w \in DOMAIN watch : pc[w] = "done" => cancelling)
    /\ [][\A w \in DOMAIN watch :
            /\ Fails(w) =>
                  /\ pc[w] \in {"connect", "subscribe", "recv"}
                  /\ pc'[w] = "sleep"
                  /\ ws'[w] = "closed"
                  /\ hist'[w].sleeps = Append(hist[w].sleeps, backoff_s[w])
                  /\ \A v \in DOMAIN watch \ {w} :
                        /\ pc'[v] = pc[v]
                        /\ ws'[v] = ws[v]
                        /\ backoff_s'[v] = backoff_s[v]
                  /\ cancelling' = cancelling
            /\ pc[w] = "sleep" /\ pc'[w] # "sleep" =>
                  \/ pc'[w] = "connect"
                  \/ cancelling /\ pc'[w] = "done"]_vars

\* C13 witness: a listener has failed, slept and is connecting again while
\* another one is still subscribed and receiving.
C13_Witness ==
    /\ ~cancelling
    /\ \E w, v \in DOMAIN watch :
          /\ pc[w] = "connect"
          /\ backoff_s[w] = Rat(17, 10)
          /\ hist[w].sleeps = <<Z(1)>>
          /\ pc[v] = "recv"
          /\ ws[v] = "open"

\* The keys every event has, and those the classifier adds.
BaseKeys ==
    {"wallet_label", "wallet", "signature", "err", "_ts"}

ClassifierKeys ==
    {"signal", "transfer_count", "top_mint", "top_amount", "total_amount",
     "dominance"}

\* The entries of the log written by listener w.
RECURSIVE LinesOf(_, _)
LinesOf(lines, w) ==
    IF lines = <<>> THEN <<>>
    ELSE IF Head(lines).wallet_label = w
    THEN <<Head(lines)>> \o LinesOf(Tail(lines), w)
    ELSE LinesOf(Tail(lines), w)

InFlight(w) ==
    IF pc[w] \in {"fetch", "acquire", "write"} THEN 1 ELSE 0

Restricted(f, keys) ==
    [k \in DOMAIN f \cap keys |-> f[k]]

C15_FetchFailureContained ==
    /\ [][\A w \in DOMAIN watch :
            pc[w] = "fetch" /\ pc'[w] # "fetch" /\ hist'[w].result = "fail" =>
                /\ pc'[w] = "write"
                /\ event'[w].signal = "fetch_failed"
                /\ DOMAIN event'[w] = BaseKeys \cup {"signal", "error"}
                /\ hist'[w].fetches = 1
                /\ ws' = ws
                /\ backoff_s' = backoff_s
                /\ faults' = faults
                /\ log' = log]_vars
    /\ [][\A w \in DOMAIN watch :
            pc[w] = "write" /\ pc'[w] # "write" =>
                /\ pc'[w] = "recv"
                /\ ws'[w] = "open"
                /\ backoff_s' = backoff_s
                /\ log' = Append(log, event[w])]_vars
    /\ [](\A i \in DOMAIN log :
            "error" \in DOMAIN log[i] => log[i].signal = "fetch_failed")

\* C15 witness: a listener's first event is fetch_failed and its next
\* notification has been written after it, with no reconnect in between.
C15_Witness ==
    /\ Len(log) = 2
    /\ "error" \in DOMAIN log[1]
    /\ log[1].signal = "fetch_failed"
    /\ log[2].wallet_label = log[1].wallet_label
    /\ hist[log[1].wallet_label].sleeps = <<>>
    /\ faults = MaxFaults
    /\ ws[log[1].wallet_label] = "open"

InWriteSection ==
    {w \in DOMAIN watch : pc[w] = "write"}

\* C16: at most one listener is inside the write section at any time; each
\* event is written as one complete line and the log is append-only.
C16_WriteSection ==
    /\ [](/\ Cardinality(InWriteSection) <= 1
          /\ \A w \in DOMAIN watch : pc[w] = "write" <=> WRITE_LOCK = w)
    /\ [][\/ log' = log
          \/ /\ Len(log') = Len(log) + 1
             /\ SubSeq(log', 1, Len(log)) = log
             /\ BaseKeys \subseteq DOMAIN log'[Len(log')]
             /\ \E w \in InWriteSection :
                   log'[Len(log')] = event[w] /\ pc'[w] = "recv"]_vars

\* C16 witness: one listener is inside the write section, after a line of
\* the other listener, which is subscribed and waiting for a notification.
C16_Witness ==
    \E w, v \in DOMAIN watch :
        /\ w # v
        /\ pc[w] = "write"
        /\ WRITE_LOCK = w
        /\ pc[v] = "recv"
        /\ Len(log) >= 1
        /\ log[Len(log)].wallet_label = v

\* The (signature, err) of a sequence of log lines.
NotesOf(lines) ==
    [i \in DOMAIN lines |-> [signature |-> lines[i].signature, err |-> lines[i].err]]

\* C17: the events of one address are in the log in the order in which
\* their notifications were received, whatever the order between addresses;
\* repeated signatures are not deduplicated: every notification has its own
\* line, and the engine consumes every line, in log order, as an event of
\* its own (each one ends in a skip or in a snapshot).
C17_OrderAndNoDedup ==
    /\ [](\A w \in DOMAIN watch :
            NotesOf(LinesOf(log, w)) =
                SubSeq(hist[w].received, 1, Len(hist[w].received) - InFlight(w)))
    /\ [](n <= Len(log) /\ Len(equity) + RejectedSoFar = n)
    /\ [][n' # n =>
            /\ n' = n + 1
            /\ last'.e.signature = log[n'].signature
            /\ last'.e._ts = log[n']._ts
            /\ last'.e.err = log[n'].err]_vars

\* C17 witness: one address was notified of the same signature twice; the
\* log has two lines for it and the engine has bought on both.
C17_Witness ==
    /\ Len(log) = 2
    /\ log[1].wallet_label = log[2].wallet_label
    /\ log[1].signature = log[2].signature
    /\ n = 2
    /\ Cardinality(BuyRowsIn(trades, 1)) = 2
    /\ \A i \in DOMAIN trades : trades[i].signature = log[1].signature
    /\ Len(equity) = 2

\* C17 second case reached: the listener started second wrote first.
C17_OtherAddressFirst ==
    /\ Len(log) = 2
    /\ log[1].wallet_label = "B"
    /\ log[2].wallet_label = "A"

\* A notification for listener v is waiting and could be handled.
CanReceive(v) ==
    ENABLED (\E sig \in Signatures, err \in ChainErrors : Notify(v, sig, err))

\* C18 (as claimed): while one listener is inside its fetch/enrich step,
\* every other listener that is subscribed and waiting can still receive a
\* notification and append its event.
C18_FetchDelaysOnlyItsAddress ==
    \A w \in DOMAIN watch :
        pc[w] = "fetch" =>
            \A v \in DOMAIN watch \ {w} :
                pc[v] = "recv" /\ ~cancelling /\ NotesReceived < MaxNotes =>
                    CanReceive(v)

AllClosed ==
    \A w \in DOMAIN watch : pc[w] = "done" /\ ws[w] = "closed"

\* C19: a shutdown eventually ends every listener with its connection
\* closed, wherever the listener stood (connecting, awaiting the subscribe
\* response, receiving, enriching, sleeping); after the shutdown no listener
\* goes back to sleeping or connecting.
C19_ShutdownTerminates ==
    /\ cancelling ~> AllClosed
    /\ [][cancelling =>
            \A w \in DOMAIN watch :
                pc'[w] # pc[w] => pc'[w] \in {"write", "recv", "done"}]_vars

\* C19 witness: the shutdown came while one listener was inside its fetch
\* and the other slept in backoff; both have ended, connections closed.
C19_Witness ==
    /\ cancelling
    /\ AllClosed
    /\ hist["A"].at_cancel = "fetch"
    /\ hist["B"].at_cancel = "sleep"

\* C21: for every transfer list the classifier's dominance is top_amount /
\* total_amount when total_amount > 0 and 0 otherwise, and lies in [0, 1],
\* top_amount being at most total_amount.
C21_DominanceInUnitInterval ==
    inferred # Nothing /\ "dominance" \in DOMAIN inferred[1] =>
        LET r == inferred[1]
        IN  /\ r.dominance = IF RLt(Z(0), r.total_amount)
                             THEN RDiv(r.top_amount, r.total_amount) ELSE Z(0)
            /\ RLe(Z(0), r.top_amount)
            /\ RLe(r.top_amount, r.total_amount)
            /\ RLe(Z(0), r.dominance)
            /\ RLe(r.dominance, Z(1))

\* C21 witness: transfers of opposite signs (-7 and 3) have been classified:
\* the top amount is 7 of a total of 10, dominance 0.7.
C21_Witness ==
    /\ inferred # Nothing
    /\ \E i, j \in DOMAIN transfers :
          /\ transfers[i].ui_amount = Some(Z(-7))
          /\ transfers[j].ui_amount = Some(Z(3))
          /\ ~Falsy(transfers[i].mint) /\ ~Falsy(transfers[j].mint)
    /\ Len(transfers) = 2
    /\ inferred[1].dominance = Rat(7, 10)

\* C21 second case reached: records with a mint and no amount, total 0,
\* dominance 0.
C21_ZeroTotalReached ==
    /\ inferred # Nothing
    /\ "dominance" \in DOMAIN inferred[1]
    /\ inferred[1].total_amount = Z(0)
    /\ inferred[1].dominance = Z(0)

\* ====================================================================
\* Properties of the price client
\* ====================================================================
\* The waits of a call that slept k times: 0.5, 1.0, ..., 0.5 * k.
LinearWaits(k) ==
    [i \in 1..k |-> Rat(i, 2)]

\* What a finished call of get_price may have done, by the kind of mint.
PriceCallContract(c, r) ==
    /\ ~r.raised
    /\ r.result \in JupiterAnswers \cup {Some(Z(1))}
    /\ CleanMint(c.mint) \in {USDC_MINT, USDT_MINT} =>
          r.result = Some(Z(1)) /\ r.attempts = 0 /\ r.waits = <<>>
    /\ CleanMint(c.mint) = "" =>
          r.result = Nothing /\ r.attempts = 0 /\ r.waits = <<>>
    /\ CleanMint(c.mint) \notin {"", USDC_MINT, USDT_MINT} =>
          /\ r.attempts \in 1..price_max_retries
          /\ Len(c.met) = r.attempts
          /\ \E k \in {r.attempts - 1, r.attempts} : r.waits = LinearWaits(k)
          /\ \A i \in 1..Len(r.waits) : c.met[i].kind \notin {"price", "no_price"}
          /\ Len(r.waits) = r.attempts =>
                r.attempts = price_max_retries /\ r.result = Nothing
          /\ r.result # Nothing =>
                /\ c.met[r.attempts].kind = "price"
                /\ r.result = Some(c.met[r.attempts].price)

\* The snapshot appended last values exactly the open positions whose lookup
\* at marking time gave a price.
UnpricedExcluded ==
    LET snap == equity[Len(equity)]
        open == {m \in DOMAIN positions : RLt(Z(0), positions[m].units)}
        valued == {m \in open : last.marks[m] # Nothing}
        worth == [m \in valued |-> RMul(positions[m].units, last.marks[m][1])]
    IN  /\ snap.position_value_usd = RSum(worth, valued)
        /\ snap.equity_usd = RAdd(cash, snap.position_value_usd)

\* C22: get_price always ends with a price or None and never raises: a
\* stablecoin gives 1.0 with no network attempt, an empty mint gives None
\* with no network attempt, any other mint takes at most max_retries
\* attempts, sleeping 0.5 * attempt after each failed one, before it gives
\* None.  In the engine an event whose lookup gives None ends in
\* skip_no_price with only that counter changed, and a position whose
\* lookup gives None at marking time is left out of the snapshot's value.
C22_PriceLookupTotal ==
    /\ [](price_ret # Nothing => PriceCallContract(price_call[1], price_ret[1]))
    /\ [](last.outcome = "processed" => UnpricedExcluded)
    /\ [][n' = n + 1 =>
            /\ last'.outcome # "raised"
            /\ price_ret' # price_ret => last'.price = price_ret'[1].result
            /\ (last'.lookups > 0 /\ last'.price = Nothing) =>
                  /\ last'.outcome = "skip_no_price"
                  /\ skipped' = [skipped EXCEPT !["skip_no_price"] = @ + 1]
                  /\ UNCHANGED <<cash, positions, trades, equity>>]_vars

\* C22 witness: the engine's lookup of a network-priced mint failed three
\* times, slept 0.5, 1.0 and 1.5, gave None, and the event was counted as
\* skip_no_price.
C22_Witness ==
    /\ n = 1
    /\ last.outcome = "skip_no_price"
    /\ price_ret # Nothing
    /\ price_ret[1].attempts = price_max_retries
    /\ price_ret[1].waits = <<Rat(1, 2), Z(1), Rat(3, 2)>>
    /\ price_ret[1].result = Nothing
    /\ skipped["skip_no_price"] = 1

\* A stablecoin and an empty mint are answered without any attempt.
C22_ShortcutsReached ==
    /\ n = 0
    /\ price_ret # Nothing
    /\ price_ret[1].attempts = 0
    /\ price_call[1].mint \in {" ", USDT_MINT}

\* A bought position could not be priced at marking time and is left out of
\* the snapshot, which is worth the cash alone.
C22_ExclusionReached ==
    /\ last.outcome = "processed"
    /\ \E m \in DOMAIN last.marks : last.marks[m] = Nothing
    /\ equity[Len(equity)].position_value_usd = Z(0)
    /\ equity[Len(equity)].open_positions = 1
    /\ price_ret[1].attempts = 2

\* C23 (as claimed): processing never throws: every event, missing or
\* malformed fields included, ends in one counted outcome (a skip reason
\* whose counter grows by one, or processed), and an event whose required
\* fields are missing or malformed is rejected by a skip reason.
C23_EveryEventCounted ==
    [][n' = n + 1 =>
          /\ last'.outcome \in RejectingSkips \cup {"processed"}
          /\ last'.outcome \in RejectingSkips =>
                skipped'[last'.outcome] = skipped[last'.outcome] + 1
          /\ (\/ last'.e.signature = None
              \/ last'.e.top_mint = None
              \/ LoopHeadRaises(last'.e)) =>
                last'.outcome \in RejectingSkips]_vars

\* ====================================================================
\* Properties of the configuration
\* ====================================================================
OverlayOn ==
    environ["PAPER_TEMP_LOWER_THRESHOLDS"] \in {"1", " TRUE "}

TierLowRisk ==
    environ["PAPER_TIER"] \in {"LOW_RISK", " low_risk "}

\* The configuration the same environment gives with the overlay off.
WithoutOverlay ==
    ResolveConfig([environ EXCEPT !["PAPER_TEMP_LOWER_THRESHOLDS"] = ""]).cfg

ExplicitlySet(name) ==
    environ[name] # Nothing

Parses(name) ==
    environ[name] # Nothing /\ environ[name][1] # NotANumber

\* The options a tier sets: variable, field, LOW_RISK's value.
TierOptions ==
    {[name |-> "PAPER_COPY_FRACTION", field |-> "copy_fraction", low |-> Rat(1, 20)],
     [name |-> "PAPER_MIN_DOMINANCE", field |-> "min_dominance", low |-> Rat(17, 20)],
     [name |-> "PAPER_MIN_SIGNAL_AMOUNT", field |-> "min_signal_amount", low |-> Z(1)],
     [name |-> "PAPER_TAKE_PROFIT_PCT", field |-> "take_profit_pct", low |-> Z(1)],
     [name |-> "PAPER_STOP_LOSS_PCT", field |-> "stop_loss_pct", low |-> Rat(1, 2)],
     [name |-> "PAPER_HOLD_SECONDS", field |-> "hold_seconds", low |-> Z(600)]}

\* A field of a configuration as a rational (hold_seconds is an int).
FieldOf(c, field) ==
    IF field = "hold_seconds" THEN Z(c[field]) ELSE c[field]

DefaultOf(field) ==
    FieldOf(ExecConfig, field)

\* The number an explicitly set variable resolves to: the number it spells
\* (its integer part for hold_seconds), the default if it spells none.
ResolvedFrom(o) ==
    IF ~Parses(o.name) THEN DefaultOf(o.field)
    ELSE IF o.field = "hold_seconds" THEN Z(Trunc(environ[o.name][1]))
    ELSE environ[o.name][1]

MinInt(a, b) ==
    IF a <= b THEN a ELSE b

\* C24 (as claimed): with the overlay on, allowed_signals is the three
\* transfer signals, min_signal_amount and min_dominance are 0.01 and 0.30
\* and never above the values resolved without the overlay, and
\* hold_seconds is min(resolved, 180) unless PAPER_HOLD_SECONDS is set, in
\* which case it is the explicit value.
C24_OverlayAsClaimed ==
    (cfg # Nothing /\ OverlayOn) =>
        /\ allowed_signals = {"normal_transfer", "large_transfer", "whale_activity"}
        /\ cfg.min_signal_amount = Rat(1, 100)
        /\ cfg.min_dominance = Rat(3, 10)
        /\ RLe(cfg.min_signal_amount, WithoutOverlay.min_signal_amount)
        /\ RLe(cfg.min_dominance, WithoutOverlay.min_dominance)
        /\ IF ExplicitlySet("PAPER_HOLD_SECONDS")
           THEN Some(Z(cfg.hold_seconds)) = environ["PAPER_HOLD_SECONDS"]
           ELSE cfg.hold_seconds = MinInt(WithoutOverlay.hold_seconds, 180)

\* C24 (amended): with the overlay on, allowed_signals is the three transfer
\* signals and min_signal_amount and min_dominance are exactly 0.01 and
\* 0.30, which is at or below the value resolved without the overlay unless
\* an explicit setting was smaller than 0.01 or 0.30; hold_seconds is
\* min(resolved, 180) unless PAPER_HOLD_SECONDS is set, in which case it is
\* what that variable resolves to (the integer part of its number, the
\* default 900 if it is no number).
C24_Overlay ==
    (cfg # Nothing /\ OverlayOn) =>
        /\ allowed_signals = {"normal_transfer", "large_transfer", "whale_activity"}
        /\ cfg.min_signal_amount = Rat(1, 100)
        /\ cfg.min_dominance = Rat(3, 10)
        /\ \/ RLe(cfg.min_signal_amount, WithoutOverlay.min_signal_amount)
           \/ /\ Parses("PAPER_MIN_SIGNAL_AMOUNT")
              /\ RLt(environ["PAPER_MIN_SIGNAL_AMOUNT"][1], Rat(1, 100))
        /\ \/ RLe(cfg.min_dominance, WithoutOverlay.min_dominance)
           \/ /\ Parses("PAPER_MIN_DOMINANCE")
              /\ RLt(environ["PAPER_MIN_DOMINANCE"][1], Rat(3, 10))
        /\ IF ExplicitlySet("PAPER_HOLD_SECONDS")
           THEN Z(cfg.hold_seconds) =
                    ResolvedFrom([name |-> "PAPER_HOLD_SECONDS",
                                  field |-> "hold_seconds"])
           ELSE cfg.hold_seconds = MinInt(WithoutOverlay.hold_seconds, 180)

\* C24 witness: LOW_RISK with the overlay on, thresholds set explicitly to 5
\* and 0.9 and the hold unset: the thresholds are 0.01 and 0.30 and the hold
\* is 180, where the tier alone gives 600.
C24_Witness ==
    /\ cfg # Nothing
    /\ OverlayOn
    /\ TierLowRisk
    /\ environ["PAPER_MIN_SIGNAL_AMOUNT"] = Some(Z(5))
    /\ environ["PAPER_MIN_DOMINANCE"] = Some(Rat(9, 10))
    /\ environ["PAPER_HOLD_SECONDS"] = Nothing
    /\ cfg.min_signal_amount = Rat(1, 100)
    /\ cfg.min_dominance = Rat(3, 10)
    /\ cfg.hold_seconds = 180
    /\ WithoutOverlay.hold_seconds = 600

\* The overlay raises a threshold that was set explicitly below 0.01.
C24_RaisedReached ==
    /\ cfg # Nothing
    /\ OverlayOn
    /\ environ["PAPER_MIN_SIGNAL_AMOUNT"] = Some(Rat(1, 1000))
    /\ RLt(WithoutOverlay.min_signal_amount, cfg.min_signal_amount)

\* C25 (as claimed): under LOW_RISK with the overlay off every tier option
\* set explicitly has its explicit value and every other one the tier's
\* value; with no tier every option is its explicit value or its default.
C25_TierAsClaimed ==
    (cfg # Nothing /\ ~OverlayOn) =>
        \A o \in TierOptions :
            /\ TierLowRisk =>
                  IF ExplicitlySet(o.name)
                  THEN Some(FieldOf(cfg, o.field)) = environ[o.name]
                  ELSE FieldOf(cfg, o.field) = o.low
            /\ environ["PAPER_TIER"] = "" =>
                  IF ExplicitlySet(o.name)
                  THEN Some(FieldOf(cfg, o.field)) = environ[o.name]
                  ELSE FieldOf(cfg, o.field) = DefaultOf(o.field)

\* C25 (amended): under LOW_RISK with the overlay off every tier option set
\* explicitly has the value its variable resolves to (the number it spells,
\* its integer part for hold_seconds, the default if it spells no number)
\* and every other one the tier's value; with no tier every option is what
\* its variable resolves to or, unset, its default.
C25_Tier ==
    (cfg # Nothing /\ ~OverlayOn) =>
        \A o \in TierOptions :
            /\ TierLowRisk =>
                  IF ExplicitlySet(o.name)
                  THEN FieldOf(cfg, o.field) = ResolvedFrom(o)
                  ELSE FieldOf(cfg, o.field) = o.low
            /\ environ["PAPER_TIER"] = "" =>
                  IF ExplicitlySet(o.name)
                  THEN FieldOf(cfg, o.field) = ResolvedFrom(o)
                  ELSE FieldOf(cfg, o.field) = DefaultOf(o.field)

\* C25 witness: LOW_RISK, overlay off, copy fraction and stop loss set
\* explicitly and kept, the other options at the tier's values.
C25_Witness ==
    /\ cfg # Nothing
    /\ ~OverlayOn
    /\ TierLowRisk
    /\ environ["PAPER_COPY_FRACTION"] = Some(Rat(1, 5))
    /\ environ["PAPER_STOP_LOSS_PCT"] = Some(Z(2))
    /\ environ["PAPER_MIN_DOMINANCE"] = Nothing
    /\ environ["PAPER_HOLD_SECONDS"] = Nothing
    /\ environ["PAPER_MIN_SIGNAL_AMOUNT"] = Nothing
    /\ cfg.copy_fraction = Rat(1, 5)
    /\ cfg.stop_loss_pct = Z(2)
    /\ cfg.min_dominance = Rat(17, 20)
    /\ cfg.hold_seconds = 600
    /\ cfg.take_profit_pct = Z(1)

\* A variable set to a text that is no number: the option is the default,
\* neither an explicit value nor the tier's.
C25_UnparsableReached ==
    /\ cfg # Nothing
    /\ ~OverlayOn
    /\ TierLowRisk
    /\ environ["PAPER_COPY_FRACTION"] = Some(NotANumber)
    /\ cfg.copy_fraction = Rat(1, 10)

\* ====================================================================
\* Properties of the listener's enrichment
\* ====================================================================
\* The step in which the enrichment of w's fetched transaction raises.
EnrichmentFailed(w) ==
    /\ pc[w] = "fetch"
    /\ pc'[w] # "fetch"
    /\ hist'[w].result = "found"
    /\ "signal" \in DOMAIN event'[w]
    /\ event'[w].signal = "fetch_failed"

\* C26 (as claimed): a failure while extracting or classifying a fetched
\* transaction closes the listener's connection and puts it to sleep for
\* the current backoff before it reconnects.
C26_EnrichmentErrorReconnects ==
    [][\A w \in DOMAIN watch :
          EnrichmentFailed(w) =>
              /\ ws'[w] = "closed"
              /\ pc'[w] = "sleep"]_vars

\* C26 (amended): a failure while extracting or classifying a fetched
\* transaction is contained like a fetch failure: the event gets signal
\* fetch_failed and the error text and goes on to be written, the connection
\* stays open, the backoff is unchanged and nothing is slept; only connect,
\* subscribe and receive failures close the connection and back off.
C26_EnrichmentErrorContained ==
    /\ [][\A w \in DOMAIN watch :
            pc[w] = "fetch" /\ pc'[w] # "fetch" =>
                "signal" \in DOMAIN event'[w]]_vars
    /\ [][\A w \in DOMAIN watch :
            EnrichmentFailed(w) =>
                /\ pc'[w] = "write"
                /\ DOMAIN event'[w] = BaseKeys \cup {"signal", "error"}
                /\ event'[w].error # "RPC failed after retries"
                /\ ws[w] = "open" /\ ws'[w] = "open"
                /\ backoff_s' = backoff_s
                /\ hist'[w].sleeps = hist[w].sleeps
                /\ faults' = faults
                /\ log' = log]_vars
    /\ [][\A w \in DOMAIN watch :
            (ws[w] = "open" /\ ws'[w] = "closed" /\ ~cancelling') =>
                /\ pc[w] \in {"subscribe", "recv"}
                /\ pc'[w] = "sleep"
                /\ faults' = faults - 1]_vars

\* C26 witness: the classification of a fetched transaction raised; the
\* event was written as fetch_failed with the exception's text and the
\* listener is receiving again on the same connection, never having slept.
C26_Witness ==
    /\ Len(log) = 1
    /\ "error" \in DOMAIN log[1]
    /\ log[1].signal = "fetch_failed"
    /\ log[1].error = "could not convert string to float: 'abc'"
    /\ hist["A"].result = "found"
    /\ pc["A"] = "recv"
    /\ ws["A"] = "open"
    /\ hist["A"].sleeps = <<>>
    /\ faults = MaxFaults

\* ====================================================================
\* Properties of positions across events
\* ====================================================================
\* C27: processing an event for mint m leaves the units, avg_entry and
\* entry_ts of every other mint as they were, and an event rejected by the
\* filter chain leaves every position as it was: a position stays open past
\* hold_seconds until an event for its own mint passes the chain.
C27_ExitTouchesOnlyEventMint ==
    [][n' = n + 1 =>
          /\ DOMAIN positions \subseteq DOMAIN positions'
          /\ DOMAIN positions' \subseteq DOMAIN positions \cup {last'.e.top_mint}
          /\ \A m \in DOMAIN positions :
                (m # last'.e.top_mint \/ last'.outcome \in FilterSkips) =>
                    positions'[m] = positions[m]]_vars

\* C27 witness: a position entered at time 1 with hold_seconds 1 is still
\* open, untouched, after an event for another mint was processed at time 2.
C27_Witness ==
    /\ n = 2
    /\ last.outcome = "processed"
    /\ last.e._ts = 2
    /\ cfg.hold_seconds = 1
    /\ \E m \in DOMAIN positions :
          /\ m # last.e.top_mint
          /\ RLt(Z(0), positions[m].units)
          /\ positions[m].entry_ts = 1
          /\ last.e._ts - positions[m].entry_ts >= cfg.hold_seconds

TradedMints ==
    {USDC_MINT, OTHER_MINT}

IsFlat(pos, m) ==
    m \notin DOMAIN pos \/ pos[m].units = Z(0)

NeverBought(rows, m) ==
    \A i \in DOMAIN rows : ~(IsBuy(rows[i]) /\ rows[i].mint = m)

\* The event just processed sold mint m down to nothing and its buy was
\* then rejected for insufficient cash.
ExitedFullyThenRejected(m) ==
    /\ last'.e.top_mint = m
    /\ ~IsFlat(positions, m)
    /\ last'.exit \in ExitReasons
    /\ last'.outcome = "skip_insufficient_cash"

\* The event just processed sold its mint down to nothing and the buy that
\* follows is within the cash at hand: the mint ends LONG with a fresh
\* position.
ReentersAfterFullExit ==
    (/\ PassedChain(last')
     /\ last'.exit \in ExitReasons
     /\ last'.mid[1].pos = Some(FlatPosition)
     /\ RLe(BuyCostOf(last'.e, last'.price[1]), last'.mid[1].cash)) =>
        /\ last'.outcome = "processed"
        /\ positions'[last'.e.top_mint] =
               [units |-> RMul(top_amount_of(last'.e), cfg.copy_fraction),
                avg_entry |-> last'.price[1],
                entry_ts |-> last'.e._ts]
        /\ RLt(Z(0), positions'[last'.e.top_mint].units)

C28_StaysFlatReached ==
    /\ n = 3
    /\ last.e.top_mint = OTHER_MINT
    /\ last.exit = "skip_no_position"
    /\ last.outcome = "skip_insufficient_cash"
    /\ ~NeverBought(trades, OTHER_MINT)
    /\ IsFlat(positions, OTHER_MINT)
    /\ Len(trades) = 2

\* ====================================================================
\* Properties of the ledger
\* ====================================================================
\* The checks of the filter chain, stated on an event and its price.
Qualifies(e, px) ==
    /\ e.err = None
    /\ e.signature # None /\ e.top_mint # None
    /\ e.signal \in allowed_signals
    /\ e.signal \notin {"no_transfers", "tx_missing", "fetch_failed"}
    /\ environ["PAPER_ALLOW_MINTS"] # <<>> =>
          \E i \in DOMAIN environ["PAPER_ALLOW_MINTS"] :
              environ["PAPER_ALLOW_MINTS"][i] = e.top_mint
    /\ e.top_amount # Nothing /\ RLe(cfg.min_signal_amount, e.top_amount[1])
    /\ e.dominance # Nothing /\ RLe(cfg.min_dominance, e.dominance[1])
    /\ px # Nothing

\* C29: every BUY and SELL row comes from an event that passed the whole
\* filter chain: a step that appends rows or changes a position processes an
\* event with no chain error, an allowed signal, an allowlisted mint when an
\* allowlist is configured, top_amount >= min_signal_amount, dominance >=
\* min_dominance and a resolved price, and the rows carry that event's
\* signature and mint; an event with signal no_transfers, tx_missing or
\* fetch_failed appends no row and changes no position.
C29_TradesOnlyFromQualifiedEvents ==
    [][n' = n + 1 =>
          /\ (trades' # trades \/ positions' # positions \/ cash' # cash) =>
                /\ Qualifies(last'.e, last'.price)
                /\ SubSeq(trades', 1, Len(trades)) = trades
                /\ \A i \in (Len(trades) + 1)..Len(trades') :
                      /\ trades'[i].signature = last'.e.signature
                      /\ trades'[i].mint = last'.e.top_mint
                      /\ trades'[i].price_usd = last'.price[1]
          /\ last'.e.signal \in {"no_transfers", "tx_missing", "fetch_failed"} =>
                /\ trades' = trades
                /\ positions' = positions
                /\ last'.outcome \in FilterSkips]_vars

\* C29 witness: the ledger holds a BUY and a SELL row from qualified events
\* for the allowlisted mint, and a complete event with signal fetch_failed
\* has just been rejected, leaving the ledger and the position alone.
C29_Witness ==
    /\ n = 3
    /\ last.e.signal = "fetch_failed"
    /\ last.e.top_mint = OTHER_MINT
    /\ last.outcome = "skip_signal_type"
    /\ \E i, j \in DOMAIN trades : IsBuy(trades[i]) /\ IsSell(trades[j])
    /\ RLt(Z(0), positions[OTHER_MINT].units)

\* C30: in every reachable state cash = starting_cash - the total_cost of
\* all BUY rows + the net proceeds of all SELL rows, and the cash recorded
\* in the latest trade row is the engine's cash.
C30_CashConserved ==
    LET buys == BuyRowsIn(trades, 1)
        sells == SellRowsIn(trades, 1)
        spent == RSum([i \in buys |-> trades[i].total_cost_usd], buys)
        earned == RSum([i \in sells |-> trades[i].net_usd], sells)
    IN  /\ cash = RAdd(RSub(cfg.starting_cash, spent), earned)
        /\ trades # <<>> => trades[Len(trades)].cash_usd = cash

\* C30 witness: two buys and a sale are in the ledger, the latest row being
\* the sale of an event whose buy was then rejected.
C30_Witness ==
    /\ Len(trades) = 3
    /\ Cardinality(BuyRowsIn(trades, 1)) = 2
    /\ IsSell(trades[3])
    /\ last.outcome = "skip_insufficient_cash"
    /\ trades[3].cash_usd = cash
    /\ RLt(cash, cfg.starting_cash)

\* ====================================================================
\* Conservation of units
\* ====================================================================
\* The ledger replayed for one mint: acc.units is the position the rows
\* account for, a sale that leaves at most the epsilon closing it; acc.plain
\* is the sum of the BUY rows' units minus the sum of the SELL rows';
\* acc.snaps counts the closing sales; acc.covered says that no sale so far
\* sold more than the units accounted for just before it.
LedgerStep(u, acc, row, mint) ==
    IF row.mint # mint THEN acc
    ELSE IF IsBuy(row)
    THEN [acc EXCEPT !.units = RAdd(@, row.units),
                     !.plain = RAdd(@, row.units)]
    ELSE CHOOSE r \in
           {[units |-> IF AtMostEpsilon(u, left) THEN Z(0) ELSE left,
             plain |-> RSub(acc.plain, row.units),
             snaps |-> acc.snaps + (IF AtMostEpsilon(u, left) THEN 1 ELSE 0),
             covered |-> acc.covered /\ RLe(row.units, acc.units)]
              : left \in {RSub(acc.units, row.units)}} : TRUE

RECURSIVE LedgerReplay(_, _, _, _)
LedgerReplay(u, rows, mint, i) ==
    IF i = 0
    THEN [units |-> Z(0), plain |-> Z(0), snaps |-> 0, covered |-> TRUE]
    ELSE CHOOSE r \in
           {LedgerStep(u, acc, rows[i], mint)
              : acc \in {LedgerReplay(u, rows, mint, i - 1)}} : TRUE

\* The units held of a mint, zero for a mint never bought.
UnitsHeld(pos, mint) ==
    IF mint \in DOMAIN pos THEN pos[mint].units ELSE Z(0)

SellFractionProper ==
    RLt(Z(0), cfg.sell_fraction) /\ RLe(cfg.sell_fraction, Z(1))

\* What the closing sales may have dropped: at most the epsilon each.
WithinSnaps(u, lost, snaps) ==
    /\ RLe(Z(0), lost)
    /\ IF u = "pico" THEN RLe(lost, Z(EPSILON * snaps)) ELSE lost = Z(0)

\* C31: with sell_fraction in (0, 1], in every reachable state each mint's
\* position units are what its ledger rows account for: the units of its
\* BUY rows minus the units of its SELL rows, less what the sales that
\* closed the position dropped (at most 1e-12 each, nothing without such a
\* sale); and no SELL row sells more units than the position held
\* immediately before it, which the step that appends the row shows too.
C31_UnitsConserved ==
    /\ [](SellFractionProper =>
            \A m \in {USDC_MINT, OTHER_MINT} :
               \E r \in {LedgerReplay(unit, trades, m, Len(trades))} :
                  /\ UnitsHeld(positions, m) = r.units
                  /\ r.covered
                  /\ WithinSnaps(unit, RSub(r.plain, r.units), r.snaps))
    /\ [][SellFractionProper =>
            \A i \in (Len(trades) + 1)..Len(trades') :
               IsSell(trades'[i]) =>
                  /\ RLe(trades'[i].units, UnitsHeld(positions, trades'[i].mint))
                  /\ RLt(Z(0), trades'[i].units)]_vars

\* A run trading dust: the position was bought, half of it sold with the
\* rest dropped as dust, and bought again; the ledger's plain sum exceeds
\* the position by that one unit of 1e-12.
C31_Witness ==
    /\ unit = "pico"
    /\ SellFractionProper
    /\ Len(trades) = 3
    /\ IsSell(trades[2])
    /\ \E r \in {LedgerReplay(unit, trades, OTHER_MINT, Len(trades))} :
          /\ r.snaps = 1
          /\ RLt(Z(0), UnitsHeld(positions, OTHER_MINT))
          /\ RSub(r.plain, r.units) = Z(EPSILON)

\* A partial sale that leaves the position open: nothing is dropped.
C31_PartialSaleReached ==
    /\ Len(trades) >= 2
    /\ IsSell(trades[2])
    /\ RLt(trades[2].units, trades[1].units)
    /\ \E r \in {LedgerReplay(unit, trades, OTHER_MINT, 2)} :
          r.snaps = 0 /\ r.plain = r.units /\ RLt(Z(0), r.units)

\* ====================================================================
\* Exit evaluation of a held position
\* ====================================================================
\* C32: every LONG position can be exited: in every reachable state a
\* position with units > 0 has avg_entry_price > 0, and exit evaluation of a
\* held position always computes pnl_pct and applies the take_profit /
\* stop_loss / time_exit rules: it ends with one of the three reasons or
\* with none of them met, never by the silent return of line 236.
C32_EveryLongPositionExitable ==
    /\ [](\A m \in DOMAIN positions :
            RLt(Z(0), positions[m].units) => RLt(Z(0), positions[m].avg_entry))
    /\ [][(/\ n' = n + 1
           /\ PassedChain(last')
           /\ RLt(Z(0), UnitsHeld(positions, last'.e.top_mint)))
          => last'.exit \in ExitReasons \cup {"no_exit"}]_vars

\* A position bought at a quoted price of zero and held past hold_seconds:
\* the next event for its mint, priced at 2, leaves maybe_exit at line 236,
\* nothing is sold.
C32_StuckPositionReached ==
    /\ n = 2
    /\ last.exit = "bad_entry"
    /\ last.price = Some(Z(2))
    /\ last.e._ts - trades[1].ts >= cfg.hold_seconds
    /\ trades[1].price_usd = Z(0)
    /\ \A i \in DOMAIN trades : IsBuy(trades[i])

\* ====================================================================
\* Timestamps of the event log
\* ====================================================================
\* C33: each event's write timestamp is the time of its write: the line a
\* listener appends carries the latest reading of the clock, no other event
\* having been stamped since; so under every interleaving of the listeners
\* the timestamps of the log are non-decreasing in log order, and the
\* engine run on that log never finds a negative held duration (event
\* timestamp minus entry_timestamp) for a position it evaluates for exit,
\* nor a position entered later than the event at hand.
C33_LogInWriteOrder ==
    /\ [][log' # log =>
            /\ Len(log') = Len(log) + 1
            /\ SubSeq(log', 1, Len(log)) = log
            /\ log'[Len(log')]._ts = clock]_vars
    /\ [](\A i, j \in DOMAIN log : i < j => log[i]._ts <= log[j]._ts)
    /\ [][n' = n + 1 =>
            /\ last'.e = load_event(log[n + 1])
            /\ \A m \in DOMAIN positions :
                  RLt(Z(0), positions[m].units) =>
                     last'.e._ts - positions[m].entry_ts >= 0
            /\ \A m \in DOMAIN positions' :
                  positions'[m].entry_ts <= last'.e._ts]_vars

\* Both listeners have written, B first; the engine bought on B's event and
\* on A's later one found the position held for a positive time, long
\* enough for the time exit.
C33_Witness ==
    /\ Len(log) = 2
    /\ log[1].wallet_label = "B"
    /\ log[2].wallet_label = "A"
    /\ log[1]._ts < log[2]._ts
    /\ n = 2
    /\ last.exit = "time_exit"
    /\ Len(trades) = 3
    /\ trades[2].ts - trades[1].ts = log[2]._ts - log[1]._ts

=============================================================================
